---- MODULE Spec2Model ----
(***************************************************************************)
(* Rules engine of the Texas Hold'em simulator: the pot ledger             *)
(* (Pot / PotManager), the table and its seated players, the dealer and    *)
(* the hand lifecycle state machine (HandManager).                         *)
(*                                                                         *)
(* A player is identified with the seat it occupies: the code uses player  *)
(* ids only as map keys and compares them for equality, so the id of the   *)
(* player in seat s is s.  Cards are counted, not named; the ranking the   *)
(* evaluator gives a player's cards is fixed by the shuffle and is chosen  *)
(* when it is first looked at (handRanking).                               *)
(***************************************************************************)
EXTENDS Integers, Sequences, FiniteSets, TLC

\* ------------------------------------------------------------------ bounds
\* Number of seats of the table the hands are played at (TableConfig.maxSeats).
MaxSeats == 3
\* Number of seats of the table the acting orders are computed at: with one
\* seat more, three players can sit with an empty seat among them.
WideMaxSeats == 4
\* Hands played before the model stops starting new ones.
MaxHands == 1
\* Largest per-player amount handed to PotManager.collectBets in PotSpec.
MaxBet == 3
\* Chips handed to the pot ledger between two resets in PotSpec.
MaxPotTotal == 4
\* Calls made out of turn that the model follows: completeBettingRound outside
\* a betting state, performShowdown on a hand already shown down,
\* recordPlayerAction for a player who is not to act, a call made when the
\* game is over.
MaxOffProtocolCalls == 1
\* Largest total a bet or raise names (the largest stack).
MaxStake == 5
\* Hand rankings the shuffle can give a player (1 = worst).
MaxRank == 2
\* reset() calls in a run.
MaxResets == 1

\* ----------------------------------------------------- table configuration
SmallBlind == 1
BigBlind == 2
DeckSize == 52
\* Stacks a player may sit down with.
StackChoices == {1, 5}

NoPlayer == -1

VARIABLES
    maxSeats,        \* Table.config.maxSeats
    seated,          \* Table.seats: the occupied seats
    buttonPosition,  \* Table.buttonPosition
    communityCards,  \* Table.communityCards (how many)
    deckRemaining,   \* Deck.cards (how many are left)
    chips,           \* Player.chipCount, by seat
    currentBet,      \* Player.currentBet, by seat
    status,          \* Player.status, by seat
    holeCards,       \* Player.holeCards (how many), by seat
    handRanking,     \* ranking of each player's cards under this shuffle
    mainPot,         \* PotManager.mainPot
    sidePots,        \* PotManager.sidePots
    currentState,    \* HandManager.currentState
    handNumber,      \* HandManager.handNumber
    bettingTracker,  \* HandManager.bettingTracker
    showdownCalls,   \* performShowdown calls made in this hand
    offProtocolCalls, \* calls made out of turn so far
    resetCalls,      \* reset() calls made so far
    lastCall,        \* the last call: its arguments, result and error
    totalCollected   \* positive amounts passed to collectBets since the last reset

vars == <<maxSeats, seated, buttonPosition, communityCards, deckRemaining, chips, currentBet,
          status, holeCards, handRanking, mainPot, sidePots, currentState,
          handNumber, bettingTracker, showdownCalls, offProtocolCalls, resetCalls,
          lastCall,
          totalCollected>>

\* The seat positions of the table.
Seats == 0 .. (maxSeats - 1)

tableVars == <<maxSeats, seated, buttonPosition, communityCards, deckRemaining, chips,
               currentBet, status, holeCards, handRanking>>

managerVars == <<currentState, handNumber, bettingTracker, showdownCalls,
                 offProtocolCalls, resetCalls>>

\* ----------------------------------------------------------------- helpers
\* Sum of f[lo] .. f[hi].
RECURSIVE SumRange(_, _, _)
SumRange(f, lo, hi) ==
    IF lo > hi THEN 0 ELSE f[lo] + SumRange(f, lo + 1, hi)

\* Sum of a function over the seats.
SumSeats(f) == SumRange(f, 0, maxSeats - 1)

RECURSIVE SortAscending(_)
SortAscending(S) ==
    IF S = {} THEN << >>
    ELSE LET m == CHOOSE x \in S : \A y \in S : x <= y
         IN <<m>> \o SortAscending(S \ {m})

Min(a, b) == IF a <= b THEN a ELSE b

Max(a, b) == IF a >= b THEN a ELSE b

\* ------------------------------------------------------------------- Pot
\* new Pot(): no contributions, nobody eligible.
EmptyPot == [contributions |-> [s \in Seats |-> 0], eligible |-> {}]

\* Pot.total
PotTotal(pot) == SumSeats(pot.contributions)

\* Pot.addContribution for every id of a set, each paying the same amount.
AddContributions(pot, ids, amount) ==
    [contributions |-> [s \in Seats |->
                          IF s \in ids THEN pot.contributions[s] + amount
                          ELSE pot.contributions[s]],
     eligible |-> pot.eligible \cup ids]

\* Pot.removePlayerEligibility for every id of a set.
RemoveEligibility(pot, ids) ==
    [pot EXCEPT !.eligible = pot.eligible \ ids]

\* ------------------------------------------------------------ PotManager
\* uniqueBetAmounts: the distinct positive amounts, ascending.
UniqueBetAmounts(playerBets) ==
    SortAscending({playerBets[s] : s \in DOMAIN playerBets} \ {0})

\* Faulty variant of contributionAmount: the whole level, not the increment.
ContributionAmountFlat(uniq, i) == uniq[i]

\* contributionAmount = currentLevel - previousLevel
ContributionAmount(uniq, i) ==
    uniq[i] - (IF i > 1 THEN uniq[i - 1] ELSE 0)

\* contributingPlayers: whoever still has at least the increment left to pay.
ContributingPlayers(remaining, amount) ==
    {s \in DOMAIN remaining : remaining[s] >= amount}

\* Faulty variant of the level's pot: folded players keep their eligibility.
LayerPotKeepFolded(contributing, amount, foldedPlayers) ==
    AddContributions([contributions |-> [s \in Seats |-> 0],
                      eligible |-> contributing],
                     contributing, amount)

\* The pot built for one level: new Pot(eligiblePlayers), one contribution
\* per contributing player, then the folded players' eligibility removed.
LayerPot(contributing, amount, foldedPlayers) ==
    RemoveEligibility(
        AddContributions([contributions |-> [s \in Seats |-> 0],
                          eligible |-> contributing \ foldedPlayers],
                         contributing, amount),
        foldedPlayers)

\* "Add pot to main or side pots": the pot replaces an empty main pot and is
\* pushed as a side pot otherwise.
PlacePot(ledger, pot) ==
    IF PotTotal(ledger.mainPot) = 0
    THEN [mainPot |-> pot, sidePots |-> ledger.sidePots]
    ELSE [mainPot |-> ledger.mainPot, sidePots |-> Append(ledger.sidePots, pot)]

\* The loop over the bet levels of PotManager.collectBets.
RECURSIVE CollectLevels(_, _, _, _, _)
CollectLevels(i, uniq, remaining, foldedPlayers, ledger) ==
    IF i > Len(uniq) THEN ledger
    ELSE LET amount == ContributionAmount(uniq, i)
             contributing == ContributingPlayers(remaining, amount)
         IN IF contributing = {}
            THEN CollectLevels(i + 1, uniq, remaining, foldedPlayers, ledger)
            ELSE CollectLevels(
                     i + 1, uniq,
                     [s \in DOMAIN remaining |->
                        IF s \in contributing THEN remaining[s] - amount
                        ELSE remaining[s]],
                     foldedPlayers,
                     PlacePot(ledger, LayerPot(contributing, amount, foldedPlayers)))

\* PotManager.collectBets(playerBets, allInPlayers, foldedPlayers): the ledger
\* after the call.  allInPlayers is not read by the code.
collectBets(ledger, playerBets, allInPlayers, foldedPlayers) ==
    IF DOMAIN playerBets = {} THEN ledger
    ELSE IF Len(UniqueBetAmounts(playerBets)) = 0 THEN ledger
    ELSE CollectLevels(1, UniqueBetAmounts(playerBets), playerBets,
                       foldedPlayers, ledger)

\* Faulty variant of eligibleWinners: the winner list is not filtered.
EligibleWinnersUnfiltered(pot, winners) == winners

\* winners.filter((w) => pot.isPlayerEligible(w.playerId))
EligibleWinners(pot, winners) ==
    SelectSeq(winners, LAMBDA w : w \in pot.eligible)

\* Faulty variant of the share: the remainder is dropped.
SingleShareNoRemainder(total, n, i) == total \div n

\* Faulty variant of the share: the remainder goes to the last winner.
SingleShareRemainderLast(total, n, i) ==
    IF i = n THEN (total \div n) + (total % n) ELSE total \div n

\* What the i-th eligible winner gets of a pot: the first one also gets the
\* remainder (odd chip rule).
SingleShare(total, n, i) ==
    IF i = 1 THEN (total \div n) + (total % n) ELSE total \div n

\* PotManager.distributeSinglePot: what each player is paid out of one pot.
distributeSinglePot(pot, winners) ==
    LET ew == EligibleWinners(pot, winners)
        n == Len(ew)
    IN IF PotTotal(pot) = 0 \/ n = 0 THEN [s \in Seats |-> 0]
       ELSE [s \in Seats |->
               SumRange([i \in 1 .. n |->
                           IF ew[i] = s THEN SingleShare(PotTotal(pot), n, i) ELSE 0],
                        1, n)]

\* The pots in the order distributePots visits them: main, then side pots.
AllPots(ledger) == <<ledger.mainPot>> \o ledger.sidePots

\* What each pot pays to each player for a winner list.
PotAwards(ledger, winners) ==
    [k \in 1 .. Len(AllPots(ledger)) |-> distributeSinglePot(AllPots(ledger)[k], winners)]

\* PotManager.distributePots: the map playerId -> amount won over all pots.
distributePots(ledger, winners) ==
    [s \in Seats |->
       SumRange([k \in 1 .. Len(AllPots(ledger)) |-> PotAwards(ledger, winners)[k][s]],
                1, Len(AllPots(ledger)))]

\* PotManager.getTotalPotAmount
getTotalPotAmount(ledger) ==
    SumRange([k \in 1 .. Len(AllPots(ledger)) |-> PotTotal(AllPots(ledger)[k])],
             1, Len(AllPots(ledger)))

Ledger == [mainPot |-> mainPot, sidePots |-> sidePots]

\* Number of pots that hold chips or were pushed as side pots.
PotCount(ledger) ==
    Len(ledger.sidePots) + (IF PotTotal(ledger.mainPot) = 0 THEN 0 ELSE 1)

\* ------------------------------------------------------- record of a call
NoBets == [s \in Seats |-> 0]

NoCall ==
    [op |-> "none", err |-> "none", from |-> "none", path |-> << >>,
     refused |-> "none", bets |-> NoBets, folded |-> {}, allIn |-> {},
     potsBefore |-> 0, winners |-> << >>, awards |-> << >>, winnings |-> NoBets]

\* -------------------------------------------------------------- GameState
BettingStates ==
    {"PREFLOP_BETTING", "FLOP_BETTING", "TURN_BETTING", "RIVER_BETTING"}

\* isBettingState
isBettingState(state) == state \in BettingStates

\* Faulty variant of isValidTransition: SHOWDOWN and HAND_COMPLETE are accepted
\* from every state.
isValidTransitionLax(from, to) ==
    \/ <<from, to>> \in
         {<<"WAITING_FOR_PLAYERS", "READY_TO_START">>,
          <<"READY_TO_START", "POSTING_BLINDS">>,
          <<"POSTING_BLINDS", "DEALING_HOLE_CARDS">>,
          <<"DEALING_HOLE_CARDS", "PREFLOP_BETTING">>,
          <<"DEALING_FLOP", "FLOP_BETTING">>,
          <<"DEALING_TURN", "TURN_BETTING">>,
          <<"DEALING_RIVER", "RIVER_BETTING">>,
          <<"PREFLOP_BETTING", "DEALING_FLOP">>,
          <<"FLOP_BETTING", "DEALING_TURN">>,
          <<"TURN_BETTING", "DEALING_RIVER">>,
          <<"HAND_COMPLETE", "READY_TO_START">>,
          <<"HAND_COMPLETE", "GAME_OVER">>}
    \/ to \in {"SHOWDOWN", "HAND_COMPLETE"}

\* isValidTransition: the validTransitions table.
isValidTransition(from, to) ==
    <<from, to>> \in
        {<<"WAITING_FOR_PLAYERS", "READY_TO_START">>,
         <<"READY_TO_START", "POSTING_BLINDS">>,
         <<"POSTING_BLINDS", "DEALING_HOLE_CARDS">>,
         <<"DEALING_HOLE_CARDS", "PREFLOP_BETTING">>,
         <<"PREFLOP_BETTING", "DEALING_FLOP">>,
         <<"PREFLOP_BETTING", "SHOWDOWN">>,
         <<"PREFLOP_BETTING", "HAND_COMPLETE">>,
         <<"DEALING_FLOP", "FLOP_BETTING">>,
         <<"FLOP_BETTING", "DEALING_TURN">>,
         <<"FLOP_BETTING", "SHOWDOWN">>,
         <<"FLOP_BETTING", "HAND_COMPLETE">>,
         <<"DEALING_TURN", "TURN_BETTING">>,
         <<"TURN_BETTING", "DEALING_RIVER">>,
         <<"TURN_BETTING", "SHOWDOWN">>,
         <<"TURN_BETTING", "HAND_COMPLETE">>,
         <<"DEALING_RIVER", "RIVER_BETTING">>,
         <<"RIVER_BETTING", "SHOWDOWN">>,
         <<"RIVER_BETTING", "HAND_COMPLETE">>,
         <<"SHOWDOWN", "HAND_COMPLETE">>,
         <<"HAND_COMPLETE", "READY_TO_START">>,
         <<"HAND_COMPLETE", "GAME_OVER">>}

\* getNextState(current), allButOneFolded left at its default
getNextState(current) ==
    CASE current = "WAITING_FOR_PLAYERS" -> "READY_TO_START"
      [] current = "READY_TO_START" -> "POSTING_BLINDS"
      [] current = "POSTING_BLINDS" -> "DEALING_HOLE_CARDS"
      [] current = "DEALING_HOLE_CARDS" -> "PREFLOP_BETTING"
      [] current = "PREFLOP_BETTING" -> "DEALING_FLOP"
      [] current = "DEALING_FLOP" -> "FLOP_BETTING"
      [] current = "FLOP_BETTING" -> "DEALING_TURN"
      [] current = "DEALING_TURN" -> "TURN_BETTING"
      [] current = "TURN_BETTING" -> "DEALING_RIVER"
      [] current = "DEALING_RIVER" -> "RIVER_BETTING"
      [] current = "RIVER_BETTING" -> "SHOWDOWN"
      [] current = "SHOWDOWN" -> "HAND_COMPLETE"
      [] current = "HAND_COMPLETE" -> "READY_TO_START"
      [] OTHER -> "GAME_OVER"

\* ------------------------------------------------- Card and HandRanking
\* A card is <<value, suit>>: Card.value (2 .. 14, the Ace high) and a suit
\* number.  A hand ranking is its rank, primaryValue, secondaryValue and
\* kickers; the cards field, which nothing compares, is left out.
HandRank ==
    [HighCard |-> 0, Pair |-> 1, TwoPair |-> 2, ThreeOfAKind |-> 3, Straight |-> 4,
     Flush |-> 5, FullHouse |-> 6, FourOfAKind |-> 7, StraightFlush |-> 8,
     RoyalFlush |-> 9]

\* new HandRanking(rank, cards, primaryValue, secondaryValue = 0, kickers = [])
HandRanking(rank, primaryValue, secondaryValue, kickers) ==
    [rank |-> rank, primaryValue |-> primaryValue,
     secondaryValue |-> secondaryValue, kickers |-> kickers]

\* kickers[i] ?? 0, with i counted from 1
KickerAt(kickers, i) == IF i <= Len(kickers) THEN kickers[i] ELSE 0

\* Faulty variant of compareTo: the kickers are not looked at.
compareToWithoutKickers(this, other) ==
    IF this.rank # other.rank THEN this.rank - other.rank
    ELSE IF this.primaryValue # other.primaryValue
    THEN this.primaryValue - other.primaryValue
    ELSE this.secondaryValue - other.secondaryValue

\* HandRanking.compareTo
compareTo(this, other) ==
    IF this.rank # other.rank THEN this.rank - other.rank
    ELSE IF this.primaryValue # other.primaryValue
    THEN this.primaryValue - other.primaryValue
    ELSE IF this.secondaryValue # other.secondaryValue
    THEN this.secondaryValue - other.secondaryValue
    ELSE LET differing == {i \in 1 .. Max(Len(this.kickers), Len(other.kickers)) :
                              KickerAt(this.kickers, i) # KickerAt(other.kickers, i)}
             first == CHOOSE i \in differing : \A j \in differing : i <= j
         IN IF differing = {} THEN 0
            ELSE KickerAt(this.kickers, first) - KickerAt(other.kickers, first)

\* ---------------------------------------------------------- HandEvaluator
\* cards.map(c => c.value).sort((a, b) => b - a): the values, highest first.
RECURSIVE ValuesDescending(_)
ValuesDescending(cards) ==
    IF cards = {} THEN << >>
    ELSE LET top == CHOOSE c \in cards : \A d \in cards : c[1] >= d[1]
         IN <<top[1]>> \o ValuesDescending(cards \ {top})

\* HandEvaluator.groupByRank: how many cards each value has.
groupByRank(cards) ==
    [value \in {c[1] : c \in cards} |-> Cardinality({c \in cards : c[1] = value})]

\* The values that have a group of the given size.
GroupsOfSize(cards, size) ==
    {value \in DOMAIN groupByRank(cards) : groupByRank(cards)[value] = size}

\* HandEvaluator.isFlush
isFlush(cards) == \A c, d \in cards : c[2] = d[2]

\* The null of getStraightHighCard.
NoStraight == 0

\* Faulty variant of getStraightHighCard: the Ace joins the low cards in any
\* run, so that a run may pass it.
getStraightHighCardAround(cards) ==
    LET values == ValuesDescending({<<c[1], 0>> : c \in cards})
        low == ValuesDescending({<<IF c[1] >= 12 THEN c[1] - 13 ELSE c[1], 0>> : c \in cards})
    IN IF Len(values) # 5 THEN NoStraight
       ELSE IF \A i \in 2 .. 5 : values[i] = values[i - 1] - 1 THEN values[1]
       ELSE IF \A i \in 2 .. 5 : low[i] = low[i - 1] - 1 THEN low[1]
       ELSE NoStraight

\* HandEvaluator.getStraightHighCard
getStraightHighCard(cards) ==
    LET values == ValuesDescending({<<c[1], 0>> : c \in cards})
    IN IF Len(values) # 5 THEN NoStraight
       ELSE IF \A i \in 2 .. 5 : values[i] = values[i - 1] - 1 THEN values[1]
       ELSE IF values = <<14, 5, 4, 3, 2>> THEN 5
       ELSE NoStraight

\* The kickers of a hand with one group: the other values, highest first.
KickersBeside(cards, values) ==
    ValuesDescending({c \in cards : c[1] \notin values})

\* HandEvaluator.evaluateHand for five cards: the checks in their order,
\* from the royal flush down to the high card.
evaluateHand(cards) ==
    LET straight == getStraightHighCard(cards)
        values == ValuesDescending(cards)
        four == GroupsOfSize(cards, 4)
        three == GroupsOfSize(cards, 3)
        pairs == GroupsOfSize(cards, 2)
        One(group) == CHOOSE value \in group : TRUE
        High(group) == CHOOSE value \in group : \A w \in group : value >= w
        Low(group) == CHOOSE value \in group : \A w \in group : value <= w
    IN IF isFlush(cards) /\ straight = 14
       THEN HandRanking(HandRank.RoyalFlush, 14, 0, << >>)
       ELSE IF isFlush(cards) /\ straight # NoStraight
       THEN HandRanking(HandRank.StraightFlush, straight, 0, << >>)
       ELSE IF four # {}
       THEN HandRanking(HandRank.FourOfAKind, One(four), 0,
                        IF KickersBeside(cards, four) = << >> THEN <<0>>
                        ELSE <<Head(KickersBeside(cards, four))>>)
       ELSE IF three # {} /\ pairs # {}
       THEN HandRanking(HandRank.FullHouse, One(three), One(pairs), << >>)
       ELSE IF isFlush(cards)
       THEN HandRanking(HandRank.Flush, Head(values), 0, Tail(values))
       ELSE IF straight # NoStraight
       THEN HandRanking(HandRank.Straight, straight, 0, << >>)
       ELSE IF three # {}
       THEN HandRanking(HandRank.ThreeOfAKind, One(three), 0, KickersBeside(cards, three))
       ELSE IF Cardinality(pairs) = 2
       THEN HandRanking(HandRank.TwoPair, High(pairs), Low(pairs),
                        IF KickersBeside(cards, pairs) = << >> THEN <<0>>
                        ELSE <<Head(KickersBeside(cards, pairs))>>)
       ELSE IF pairs # {}
       THEN HandRanking(HandRank.Pair, One(pairs), 0, KickersBeside(cards, pairs))
       ELSE HandRanking(HandRank.HighCard, Head(values), 0, Tail(values))

\* HandEvaluator.get5CardCombinations: the position lists i < j < k < l < m,
\* in the order of the five nested loops.
PositionLess(a, b) ==
    \E q \in 1 .. 5 : a[q] < b[q] /\ \A r \in 1 .. q - 1 : a[r] = b[r]

RECURSIVE InLoopOrder(_)
InLoopOrder(positions) ==
    IF positions = {} THEN << >>
    ELSE LET first == CHOOSE a \in positions :
                         \A b \in positions \ {a} : PositionLess(a, b)
         IN <<first>> \o InLoopOrder(positions \ {first})

get5CardCombinations(cards) ==
    LET n == Len(cards)
        positions ==
           UNION {UNION {UNION {UNION {{<<i, j, k, l, m>> : m \in l + 1 .. n}
                                        : l \in k + 1 .. n}
                                : k \in j + 1 .. n}
                        : j \in i + 1 .. n}
                  : i \in 1 .. n}
        ordered == InLoopOrder(positions)
    IN [c \in 1 .. Len(ordered) |-> {cards[ordered[c][q]] : q \in 1 .. 5}]

\* The loop of evaluateBest7CardHand over the combinations from the given
\* one on; bestHand is a sequence, empty for null.
RECURSIVE BestFrom(_, _, _)
BestFrom(combinations, c, bestHand) ==
    IF c > Len(combinations) THEN bestHand
    ELSE LET hand == evaluateHand(combinations[c])
         IN BestFrom(combinations, c + 1,
                     IF bestHand = << >> \/ compareTo(hand, bestHand[1]) > 0
                     THEN <<hand>> ELSE bestHand)

\* Faulty variant of evaluateBest7CardHand: a hand replaces the best one
\* only when its rank is higher.
evaluateBest7CardHandByRank(cards) ==
    LET combinations == get5CardCombinations(cards)
        better == {c \in 1 .. Len(combinations) :
                     \A d \in 1 .. Len(combinations) :
                        evaluateHand(combinations[d]).rank
                           <= evaluateHand(combinations[c]).rank}
    IN evaluateHand(combinations[CHOOSE c \in better : \A d \in better : c <= d])

\* HandEvaluator.evaluateBest7CardHand for a list of seven cards.
evaluateBest7CardHand(cards) ==
    BestFrom(get5CardCombinations(cards), 1, << >>)[1]

\* ------------------------------------------------------------------ Table
\* The table with its players, as one value.
TableNow ==
    [seated |-> seated, buttonPosition |-> buttonPosition,
     communityCards |-> communityCards, deckRemaining |-> deckRemaining,
     chips |-> chips, currentBet |-> currentBet, status |-> status,
     holeCards |-> holeCards, handRanking |-> handRanking]

\* Table.getPlayers: the seated players in seat order.
getPlayers(t) == SortAscending(t.seated)

\* Table.getActivePlayers: status Active or AllIn.
getActivePlayers(t) ==
    {s \in t.seated : t.status[s] \in {"ACTIVE", "ALL_IN"}}

\* Table.playerCount
playerCount(t) == Cardinality(t.seated)

\* The while loops of moveButton and of the blind positions: step clockwise
\* while the seat is to be skipped and fewer than maxSeats attempts were made.
RECURSIVE ScanSeats(_, _, _)
ScanSeats(position, attempts, skip) ==
    IF position \in skip /\ attempts < maxSeats
    THEN ScanSeats((position + 1) % maxSeats, attempts + 1, skip)
    ELSE [position |-> position, attempts |-> attempts]

\* Seats the blind positions pass over: empty, or the player is sitting out.
BlindSkip(t) ==
    {s \in Seats : s \notin t.seated \/ t.status[s] = "SITTING_OUT"}

\* Table.getSmallBlindPosition (NoPlayer for null)
getSmallBlindPosition(t) ==
    IF playerCount(t) < 2 THEN NoPlayer
    ELSE IF playerCount(t) = 2 THEN t.buttonPosition
    ELSE LET r == ScanSeats((t.buttonPosition + 1) % maxSeats, 0, BlindSkip(t))
         IN IF r.attempts < maxSeats THEN r.position ELSE NoPlayer

\* Table.getBigBlindPosition (NoPlayer for null)
getBigBlindPosition(t) ==
    IF playerCount(t) < 2 THEN NoPlayer
    ELSE IF playerCount(t) = 2
    THEN LET r == ScanSeats((t.buttonPosition + 1) % maxSeats, 0, BlindSkip(t))
         IN IF r.attempts < maxSeats THEN r.position ELSE NoPlayer
    ELSE IF getSmallBlindPosition(t) = NoPlayer THEN NoPlayer
    ELSE LET r == ScanSeats((getSmallBlindPosition(t) + 1) % maxSeats, 0, BlindSkip(t))
         IN IF r.attempts < maxSeats THEN r.position ELSE NoPlayer

\* Table.getPlayerAtSeat (NoPlayer for null)
getPlayerAtSeat(t, position) ==
    IF position \in t.seated THEN position ELSE NoPlayer

\* Table.getSmallBlindPlayer
getSmallBlindPlayer(t) ==
    IF getSmallBlindPosition(t) = NoPlayer THEN NoPlayer
    ELSE getPlayerAtSeat(t, getSmallBlindPosition(t))

\* Table.getBigBlindPlayer
getBigBlindPlayer(t) ==
    IF getBigBlindPosition(t) = NoPlayer THEN NoPlayer
    ELSE getPlayerAtSeat(t, getBigBlindPosition(t))

\* Table.moveButton: ok is FALSE when it throws 'No occupied seats'.
moveButton(t) ==
    LET r == ScanSeats((t.buttonPosition + 1) % maxSeats, 0, Seats \ t.seated)
    IN IF r.attempts >= maxSeats THEN [ok |-> FALSE, t |-> t]
       ELSE [ok |-> TRUE, t |-> [t EXCEPT !.buttonPosition = r.position]]

\* Table.removePlayer for a set of players: their seats become empty.
removePlayers(t, gone) ==
    [t EXCEPT !.seated = t.seated \ gone,
              !.chips = [s \in Seats |-> IF s \in gone THEN 0 ELSE t.chips[s]],
              !.currentBet = [s \in Seats |-> IF s \in gone THEN 0 ELSE t.currentBet[s]],
              !.status = [s \in Seats |-> IF s \in gone THEN "NONE" ELSE t.status[s]],
              !.holeCards = [s \in Seats |-> IF s \in gone THEN 0 ELSE t.holeCards[s]],
              !.handRanking = [s \in Seats |-> IF s \in gone THEN 0 ELSE t.handRanking[s]]]

\* ----------------------------------------------------------------- Player
\* Player.resetForNewHand for every seated player (Table.resetForNewHand),
\* with the community cards cleared.
resetForNewHand(t) ==
    [t EXCEPT !.communityCards = 0,
              !.holeCards = [s \in Seats |-> 0],
              !.currentBet = [s \in Seats |-> 0],
              !.status = [s \in Seats |->
                            IF s \in t.seated /\ t.status[s] \in {"FOLDED", "ALL_IN"}
                            THEN (IF t.chips[s] > 0 THEN "ACTIVE" ELSE "ELIMINATED")
                            ELSE t.status[s]]]

\* Player.removeChips then the bet counter and the all-in status, shared by
\* bet, call and raise: amount is what removeChips is asked for, base the
\* bet counter the amount is added to.
PutIn(t, s, amount, base) ==
    IF amount <= 0 THEN [ok |-> FALSE, t |-> t]
    ELSE LET actual == Min(amount, t.chips[s])
         IN [ok |-> TRUE,
             t |-> [t EXCEPT !.chips[s] = t.chips[s] - actual,
                             !.currentBet[s] = base + actual,
                             !.status[s] = IF t.chips[s] - actual = 0
                                           THEN "ALL_IN" ELSE t.status[s]]]

\* Player.bet(amount)
bet(t, s, amount) ==
    IF t.status[s] # "ACTIVE" THEN [ok |-> FALSE, t |-> t]
    ELSE IF t.currentBet[s] > 0 THEN [ok |-> FALSE, t |-> t]
    ELSE PutIn(t, s, amount, 0)

\* Player.call(betAmount) and Player.raise(raiseAmount): the amount is the
\* total to reach; both have the same body.
raise(t, s, total) ==
    IF t.status[s] # "ACTIVE" THEN [ok |-> FALSE, t |-> t]
    ELSE PutIn(t, s, total - t.currentBet[s], t.currentBet[s])

\* Player.fold
fold(t, s) ==
    IF t.status[s] # "ACTIVE" THEN [ok |-> FALSE, t |-> t]
    ELSE [ok |-> TRUE, t |-> [t EXCEPT !.status[s] = "FOLDED", !.holeCards[s] = 0]]

\* Player.check
check(t, s) ==
    IF t.status[s] # "ACTIVE" THEN [ok |-> FALSE, t |-> t]
    ELSE [ok |-> TRUE, t |-> t]

\* Player.getHoleCards: none when folded or sitting out.
getHoleCards(t, s) ==
    IF t.status[s] \in {"FOLDED", "SITTING_OUT"} THEN 0 ELSE t.holeCards[s]

\* Faulty variant of isEliminated: the status alone decides.
isEliminatedByStatus(t, s) == t.status[s] = "ELIMINATED"

\* Player.isEliminated
isEliminated(t, s) == t.chips[s] = 0 \/ t.status[s] = "ELIMINATED"

\* Player.addChips for the amounts of a winnings map (amounts > 0 only).
addChips(t, winnings) ==
    [t EXCEPT !.chips = [s \in Seats |-> t.chips[s] + winnings[s]],
              !.status = [s \in Seats |->
                            IF winnings[s] > 0 /\ t.status[s] = "ELIMINATED"
                            THEN "ACTIVE" ELSE t.status[s]]]

\* ----------------------------------------------------------------- Dealer
\* Dealer.prepareNewHand: a full, newly shuffled deck and the table reset.
prepareNewHand(t) ==
    [resetForNewHand(t) EXCEPT !.deckRemaining = DeckSize,
                               !.handRanking = [s \in Seats |-> 0]]

\* Dealer.dealHoleCards: two rounds of one card to every active player
\* (the caller has checked that there are at least two of them).
dealHoleCards(t) ==
    [t EXCEPT !.holeCards = [s \in Seats |->
                               IF s \in getActivePlayers(t)
                               THEN getHoleCards(t, s) + 2 ELSE t.holeCards[s]],
              !.deckRemaining = t.deckRemaining - 2 * Cardinality(getActivePlayers(t))]

\* Dealer.dealFlop: burn one, the three flop cards become the community cards.
dealFlop(t) ==
    [t EXCEPT !.deckRemaining = t.deckRemaining - 4, !.communityCards = 3]

\* Faulty variant of dealTurn: the new card replaces the community cards.
dealTurnReplacing(t) ==
    [t EXCEPT !.deckRemaining = t.deckRemaining - 2, !.communityCards = 1]

\* Dealer.dealTurn and Dealer.dealRiver: burn one, add one community card.
dealTurn(t) ==
    [t EXCEPT !.deckRemaining = t.deckRemaining - 2,
              !.communityCards = t.communityCards + 1]

\* Faulty variant of dealRemainingCards: the three tests chained by else,
\* so that one street only is dealt.
dealRemainingCardsOneStreet(t) ==
    LET n == t.communityCards
    IN IF n < 3 THEN dealFlop(t)
       ELSE IF n < 5 THEN dealTurn(t)
       ELSE t

\* HandManager.dealRemainingCards: the three tests read the count taken
\* before any card is dealt.
dealRemainingCards(t) ==
    LET n == t.communityCards
        a == IF n < 3 THEN dealFlop(t) ELSE t
        b == IF n < 4 THEN dealTurn(a) ELSE a
    IN IF n < 5 THEN dealTurn(b) ELSE b

\* ------------------------------------------------------- ActionOrderRules
\* allPlayers.findIndex: the index of a seated player in getPlayers().
PlayerIndex(t, s) == Cardinality({x \in t.seated : x < s})

\* allPlayers[pos]?.id (NoPlayer for undefined)
PlayerAtIndex(t, pos) ==
    IF pos >= 0 /\ pos < Len(getPlayers(t)) THEN getPlayers(t)[pos + 1] ELSE NoPlayer

\* sortByDistanceFromPosition: ascending (a - startPos + maxSeats) % maxSeats.
\* The positions are distinct and below maxSeats, so are their distances.
sortByDistanceFromPosition(positions, startPos) ==
    SelectSeq([d \in 1 .. maxSeats |-> (startPos + d - 1) % maxSeats],
              LAMBDA a : a \in positions)

\* [...ordered.slice(1), ordered[0]]
FirstToEnd(ordered) ==
    IF Len(ordered) = 0 THEN ordered ELSE Append(Tail(ordered), Head(ordered))

\* positions -> player ids, undefined ones filtered out
PositionsToIds(t, ordered) ==
    SelectSeq([i \in 1 .. Len(ordered) |-> PlayerAtIndex(t, ordered[i])],
              LAMBDA id : id # NoPlayer)

ActivePositions(t) == {PlayerIndex(t, s) : s \in getActivePlayers(t)}

\* ActionOrderRules.getPreflopOrder
getPreflopOrder(t) ==
    LET bbPos == getBigBlindPosition(t)
        bbPlayer == getBigBlindPlayer(t)
        fromBB == sortByDistanceFromPosition(ActivePositions(t),
                                             IF bbPos = NoPlayer THEN 0 ELSE bbPos)
        ordered == IF Cardinality(getActivePlayers(t)) = 2
                   THEN sortByDistanceFromPosition(ActivePositions(t), t.buttonPosition)
                   ELSE IF Len(fromBB) > 0 /\ fromBB[1] = bbPos
                        THEN FirstToEnd(fromBB) ELSE fromBB
    IN [playerOrder |-> PositionsToIds(t, ordered),
        startingBet |-> IF bbPlayer = NoPlayer THEN 0 ELSE t.currentBet[bbPlayer]]

\* ActionOrderRules.getPostFlopOrder
getPostFlopOrder(t) ==
    LET fromButton == sortByDistanceFromPosition(ActivePositions(t), t.buttonPosition)
        ordered == IF Len(fromButton) > 1 /\ fromButton[1] = t.buttonPosition
                   THEN FirstToEnd(fromButton) ELSE fromButton
    IN [playerOrder |-> PositionsToIds(t, ordered), startingBet |-> 0]

\* ActionOrderRules.getActionOrder
getActionOrder(t, round) ==
    IF getActivePlayers(t) = {} THEN [playerOrder |-> << >>, startingBet |-> 0]
    ELSE IF round = "PREFLOP" THEN getPreflopOrder(t)
    ELSE getPostFlopOrder(t)

\* ---------------------------------------------------- BettingRoundTracker
\* bettingTracker = null
NoTracker ==
    [round |-> "NONE", currentBetAmount |-> 0, lastRaiserPosition |-> -1,
     playerIdOrder |-> << >>, currentActionIndex |-> 0, playersActed |-> {}]

\* new BettingRoundTracker(table, round)
NewTracker(t, round) ==
    [round |-> round,
     currentBetAmount |-> getActionOrder(t, round).startingBet,
     lastRaiserPosition |-> -1,
     playerIdOrder |-> getActionOrder(t, round).playerOrder,
     currentActionIndex |-> 0,
     playersActed |-> {}]

\* Folded or all-in: passed over by the tracker.
CannotAct(t, s) == t.status[s] \in {"FOLDED", "ALL_IN"}

\* Faulty variant of findNextPlayerToAct: players that have acted on the
\* street are passed over.
findNextPlayerToActFirstTime(tr, t) ==
    LET behind == SelectSeq(tr.playerIdOrder,
                            LAMBDA s : /\ s \in t.seated
                                       /\ ~CannotAct(t, s)
                                       /\ s \notin tr.playersActed
                                       /\ t.currentBet[s] < tr.currentBetAmount)
    IN IF Len(behind) = 0 THEN NoPlayer ELSE Head(behind)

\* BettingRoundTracker.findNextPlayerToAct: the first player of the action
\* order who can act and is below the current bet (NoPlayer for null).
findNextPlayerToAct(tr, t) ==
    LET behind == SelectSeq(tr.playerIdOrder,
                            LAMBDA s : /\ s \in t.seated
                                       /\ ~CannotAct(t, s)
                                       /\ t.currentBet[s] < tr.currentBetAmount)
    IN IF Len(behind) = 0 THEN NoPlayer ELSE Head(behind)

\* playerIdOrder.indexOf, zero-based
IndexOfPlayer(order, s) ==
    (CHOOSE i \in 1 .. Len(order) : order[i] = s /\ \A j \in 1 .. i - 1 : order[j] # s) - 1

\* Faulty variant of getCurrentPlayer: past the end of the order nobody is
\* looked for.
RECURSIVE getCurrentPlayerOnePass(_, _)
getCurrentPlayerOnePass(tr, t) ==
    IF tr.currentActionIndex >= Len(tr.playerIdOrder)
    THEN [player |-> NoPlayer, tracker |-> tr]
    ELSE LET s == tr.playerIdOrder[tr.currentActionIndex + 1]
         IN IF \/ s \notin t.seated
               \/ CannotAct(t, s)
               \/ (t.currentBet[s] >= tr.currentBetAmount /\ s \in tr.playersActed)
            THEN getCurrentPlayerOnePass([tr EXCEPT !.currentActionIndex = @ + 1], t)
            ELSE [player |-> s, tracker |-> tr]

\* BettingRoundTracker.getCurrentPlayer: the player to act and the tracker
\* with the action index where the search left it.
RECURSIVE getCurrentPlayer(_, _)
getCurrentPlayer(tr, t) ==
    LET looped == tr.currentActionIndex >= Len(tr.playerIdOrder)
        next == findNextPlayerToAct(tr, t)
    IN IF looped /\ next = NoPlayer THEN [player |-> NoPlayer, tracker |-> tr]
       ELSE LET index == IF looped THEN IndexOfPlayer(tr.playerIdOrder, next)
                         ELSE tr.currentActionIndex
                at == [tr EXCEPT !.currentActionIndex = index]
                s == tr.playerIdOrder[index + 1]
            IN IF \/ s \notin t.seated
                  \/ CannotAct(t, s)
                  \/ (t.currentBet[s] >= tr.currentBetAmount /\ s \in tr.playersActed)
               THEN getCurrentPlayer([at EXCEPT !.currentActionIndex = index + 1], t)
               ELSE [player |-> s, tracker |-> at]

\* Faulty variant of recordAction: the player is not added to those who
\* have acted.
recordActionUnrecorded(tr, t, s, raisedAmount) ==
    LET isRaise == raisedAmount > tr.currentBetAmount
    IN [tr EXCEPT !.currentBetAmount = IF isRaise THEN raisedAmount ELSE @,
                  !.lastRaiserPosition = IF isRaise THEN PlayerIndex(t, s) ELSE @,
                  !.currentActionIndex = @ + 1]

\* BettingRoundTracker.recordAction(playerId, raisedAmount); raisedAmount is
\* -1 when it is not given.
recordAction(tr, t, s, raisedAmount) ==
    LET isRaise == raisedAmount > tr.currentBetAmount
    IN [tr EXCEPT !.playersActed = tr.playersActed \cup {s},
                  !.currentBetAmount = IF isRaise THEN raisedAmount ELSE @,
                  !.lastRaiserPosition = IF isRaise THEN PlayerIndex(t, s) ELSE @,
                  !.currentActionIndex = @ + 1]

\* Faulty variant of isRoundComplete: the second loop, over the players that
\* have acted, is missing.
isRoundCompleteMatchedOnly(tr, t) ==
    LET playersWhoCanAct == {s \in getActivePlayers(t) : ~CannotAct(t, s)}
    IN \/ Cardinality(playersWhoCanAct) <= 1
       \/ \A s \in playersWhoCanAct : t.currentBet[s] >= tr.currentBetAmount

\* BettingRoundTracker.isRoundComplete
isRoundComplete(tr, t) ==
    LET playersWhoCanAct == {s \in getActivePlayers(t) : ~CannotAct(t, s)}
    IN \/ Cardinality(playersWhoCanAct) <= 1
       \/ /\ \A s \in playersWhoCanAct : t.currentBet[s] >= tr.currentBetAmount
          /\ \A s \in playersWhoCanAct : s \in tr.playersActed

\* BettingRoundTracker.getMinRaise
getMinRaise(tr) == tr.currentBetAmount + BigBlind

\* BettingRoundTracker.getCallAmount
getCallAmount(tr, t, s) == Max(0, tr.currentBetAmount - t.currentBet[s])

\* ------------------------------------------------------------ HandManager
\* The hand manager with its table, pot manager and tracker as one value,
\* together with what the running call has done so far: the states setState
\* has assigned (path), the target setState refused, the error thrown, what
\* was passed to PotManager.collectBets and what the showdown paid.
ManagerNow ==
    [t |-> TableNow, ledger |-> Ledger, state |-> currentState,
     handNumber |-> handNumber, tracker |-> bettingTracker,
     path |-> << >>, refused |-> "none", err |-> "none",
     bets |-> NoBets, folded |-> {}, allIn |-> {}, potsBefore |-> 0,
     collected |-> 0, cleared |-> FALSE,
     winners |-> << >>, awards |-> << >>, winnings |-> NoBets]

\* A throw: the rest of the handler does not run.
Throw(m, error) == [m EXCEPT !.err = error]

\* The statements after a call that may have thrown.
Then(m, Rest(_)) == IF m.err # "none" THEN m ELSE Rest(m)

\* HandManager.setState
setState(m, newState) ==
    IF ~isValidTransition(m.state, newState)
    THEN [m EXCEPT !.err = "InvalidStateTransition", !.refused = newState]
    ELSE [m EXCEPT !.state = newState, !.path = Append(@, newState)]

\* Faulty variant of setReadyToStart: outside WaitingForPlayers the call
\* returns without doing anything.
setReadyToStartQuiet(m) ==
    IF m.state # "WAITING_FOR_PLAYERS" THEN m
    ELSE IF Cardinality(getActivePlayers(m.t)) < 2 THEN Throw(m, "InsufficientPlayers")
    ELSE setState(m, "READY_TO_START")

\* HandManager.setReadyToStart
setReadyToStart(m) ==
    IF m.state = "READY_TO_START" THEN m
    ELSE IF m.state # "WAITING_FOR_PLAYERS" THEN Throw(m, "CannotSetReadyFromState")
    ELSE IF Cardinality(getActivePlayers(m.t)) < 2 THEN Throw(m, "InsufficientPlayers")
    ELSE setState(m, "READY_TO_START")

\* Faulty variant of postBlinds: a stack below the blind is refused.
postBlindsStrict(m) ==
    LET sbPlayer == getSmallBlindPlayer(m.t)
        bbPlayer == getBigBlindPlayer(m.t)
    IN IF sbPlayer = NoPlayer \/ bbPlayer = NoPlayer
       THEN Throw(m, "CannotDetermineBlindPlayers")
       ELSE IF m.t.chips[sbPlayer] < SmallBlind \/ m.t.chips[bbPlayer] < BigBlind
       THEN Throw(m, "PlayerError")
       ELSE LET sb == bet(m.t, sbPlayer, SmallBlind)
                bb == bet(sb.t, bbPlayer, BigBlind)
            IN IF ~sb.ok THEN Throw(m, "PlayerError")
               ELSE IF ~bb.ok THEN Throw([m EXCEPT !.t = sb.t], "PlayerError")
               ELSE [m EXCEPT !.t = bb.t]

\* HandManager.postBlinds
postBlinds(m) ==
    LET sbPlayer == getSmallBlindPlayer(m.t)
        bbPlayer == getBigBlindPlayer(m.t)
    IN IF sbPlayer = NoPlayer \/ bbPlayer = NoPlayer
       THEN Throw(m, "CannotDetermineBlindPlayers")
       ELSE LET sb == bet(m.t, sbPlayer, Min(m.t.chips[sbPlayer], SmallBlind))
                bb == bet(sb.t, bbPlayer, Min(sb.t.chips[bbPlayer], BigBlind))
            IN IF ~sb.ok THEN Throw(m, "PlayerError")
               ELSE IF ~bb.ok THEN Throw([m EXCEPT !.t = sb.t], "PlayerError")
               ELSE [m EXCEPT !.t = bb.t]

\* Faulty variant of startHand: the number of active players is not checked.
startHandUncounted(m) ==
    IF m.state # "READY_TO_START" THEN Throw(m, "CannotStartHandFromState")
    ELSE LET prepared == [m EXCEPT !.handNumber = @ + 1, !.t = prepareNewHand(@)]
             posting == setState(prepared, "POSTING_BLINDS")
             posted == Then(posting, postBlinds)
             dealing == Then(posted, LAMBDA x : setState(x, "DEALING_HOLE_CARDS"))
             dealt == Then(dealing, LAMBDA x : [x EXCEPT !.t = dealHoleCards(@)])
             betting == Then(dealt, LAMBDA x : setState(x, "PREFLOP_BETTING"))
         IN Then(betting,
                 LAMBDA x : [x EXCEPT !.tracker = NewTracker(x.t, "PREFLOP")])

\* HandManager.startHand
startHand(m) ==
    IF m.state # "READY_TO_START" THEN Throw(m, "CannotStartHandFromState")
    ELSE LET prepared == [m EXCEPT !.handNumber = @ + 1, !.t = prepareNewHand(@)]
         IN IF Cardinality(getActivePlayers(prepared.t)) < 2
            THEN Throw(prepared, "InsufficientPlayers")
            ELSE LET posting == setState(prepared, "POSTING_BLINDS")
                     posted == Then(posting, postBlinds)
                     dealing == Then(posted, LAMBDA x : setState(x, "DEALING_HOLE_CARDS"))
                     dealt == Then(dealing, LAMBDA x : [x EXCEPT !.t = dealHoleCards(@)])
                     betting == Then(dealt, LAMBDA x : setState(x, "PREFLOP_BETTING"))
                 IN Then(betting,
                         LAMBDA x : [x EXCEPT !.tracker = NewTracker(x.t, "PREFLOP")])

\* HandManager.collectBets
managerCollectBets(m) ==
    LET foldedPlayers == {s \in m.t.seated : m.t.status[s] = "FOLDED"}
        allInPlayers == {s \in m.t.seated : m.t.status[s] = "ALL_IN"}
    IN [m EXCEPT !.ledger = collectBets(m.ledger, m.t.currentBet, allInPlayers, foldedPlayers),
                 !.t = [m.t EXCEPT !.currentBet = [s \in Seats |-> 0]],
                 !.bets = m.t.currentBet, !.folded = foldedPlayers,
                 !.allIn = allInPlayers,
                 !.potsBefore = PotCount(m.ledger),
                 !.collected = SumSeats(m.t.currentBet)]

\* The tail of completeBettingRound: deal the street of a dealing state, move
\* on to its betting state and open its tracker.
DealStreet(m, nextState) ==
    CASE nextState = "DEALING_FLOP" ->
           Then(setState([m EXCEPT !.t = dealFlop(@)], "FLOP_BETTING"),
                LAMBDA x : [x EXCEPT !.tracker = NewTracker(x.t, "FLOP")])
      [] nextState = "DEALING_TURN" ->
           Then(setState([m EXCEPT !.t = dealTurn(@)], "TURN_BETTING"),
                LAMBDA x : [x EXCEPT !.tracker = NewTracker(x.t, "TURN")])
      [] nextState = "DEALING_RIVER" ->
           Then(setState([m EXCEPT !.t = dealTurn(@)], "RIVER_BETTING"),
                LAMBDA x : [x EXCEPT !.tracker = NewTracker(x.t, "RIVER")])
      [] nextState = "SHOWDOWN" -> [m EXCEPT !.tracker = NoTracker]
      [] OTHER -> m

\* Faulty variant of completeBettingRound: the hand ends only when nobody
\* is left.
completeBettingRoundNobodyLeft(m) ==
    LET collected == managerCollectBets(m)
        activePlayers == getActivePlayers(collected.t)
        playersNotAllIn == {s \in activePlayers : collected.t.status[s] # "ALL_IN"}
    IN IF Cardinality(activePlayers) < 1 THEN setState(collected, "HAND_COMPLETE")
       ELSE IF \/ playersNotAllIn = {}
               \/ (Cardinality(playersNotAllIn) = 1 /\ Cardinality(activePlayers) > 1)
       THEN setState([collected EXCEPT !.t = dealRemainingCards(@)], "SHOWDOWN")
       ELSE Then(setState(collected, getNextState(collected.state)),
                 LAMBDA x : DealStreet(x, getNextState(collected.state)))

\* HandManager.completeBettingRound
completeBettingRound(m) ==
    LET collected == managerCollectBets(m)
        activePlayers == getActivePlayers(collected.t)
        playersNotAllIn == {s \in activePlayers : collected.t.status[s] # "ALL_IN"}
    IN IF Cardinality(activePlayers) <= 1 THEN setState(collected, "HAND_COMPLETE")
       ELSE IF \/ playersNotAllIn = {}
               \/ (Cardinality(playersNotAllIn) = 1 /\ Cardinality(activePlayers) > 1)
       THEN setState([collected EXCEPT !.t = dealRemainingCards(@)], "SHOWDOWN")
       ELSE Then(setState(collected, getNextState(collected.state)),
                 LAMBDA x : DealStreet(x, getNextState(collected.state)))

\* Faulty variant of determineWinners: of the tied best hands only the first
\* is returned.
determineWinnersFirstOnly(t, rank) ==
    LET players == SelectSeq(getPlayers(t), LAMBDA s : t.status[s] # "FOLDED")
        best == CHOOSE r \in 0 .. MaxRank :
                    /\ \E i \in 1 .. Len(players) : rank[players[i]] = r
                    /\ \A i \in 1 .. Len(players) : rank[players[i]] <= r
    IN IF Len(players) = 0 THEN [ok |-> TRUE, evaluated |-> {}, winners |-> << >>]
       ELSE IF Len(players) = 1
       THEN [ok |-> TRUE, evaluated |-> {}, winners |-> players]
       ELSE IF \E i \in 1 .. Len(players) :
                  getHoleCards(t, players[i]) + t.communityCards < 5
       THEN [ok |-> FALSE, evaluated |-> {}, winners |-> << >>]
       ELSE [ok |-> TRUE, evaluated |-> {players[i] : i \in 1 .. Len(players)},
             winners |-> <<Head(SelectSeq(players, LAMBDA s : rank[s] = best))>>]

\* Dealer.determineWinners: the players that have not folded, and of them
\* those with the best ranking, in seat order (the sort is stable).  ok is
\* FALSE when it throws for lack of cards.
determineWinners(t, rank) ==
    LET players == SelectSeq(getPlayers(t), LAMBDA s : t.status[s] # "FOLDED")
        best == CHOOSE r \in 0 .. MaxRank :
                    /\ \E i \in 1 .. Len(players) : rank[players[i]] = r
                    /\ \A i \in 1 .. Len(players) : rank[players[i]] <= r
    IN IF Len(players) = 0 THEN [ok |-> TRUE, evaluated |-> {}, winners |-> << >>]
       ELSE IF Len(players) = 1
       THEN [ok |-> TRUE, evaluated |-> {}, winners |-> players]
       ELSE IF \E i \in 1 .. Len(players) :
                  getHoleCards(t, players[i]) + t.communityCards < 5
       THEN [ok |-> FALSE, evaluated |-> {}, winners |-> << >>]
       ELSE [ok |-> TRUE, evaluated |-> {players[i] : i \in 1 .. Len(players)},
             winners |-> SelectSeq(players, LAMBDA s : rank[s] = best)]

\* Dealer.distributePots
dealerDistributePots(m, rank) ==
    LET found == determineWinners(m.t, rank)
        winnings == distributePots(m.ledger, found.winners)
    IN IF ~found.ok THEN Throw(m, "InsufficientCards")
       ELSE IF Len(found.winners) = 0 THEN m
       ELSE [m EXCEPT !.t = addChips([@ EXCEPT !.handRanking =
                                        [s \in Seats |-> IF s \in found.evaluated
                                                         THEN rank[s] ELSE @[s]]],
                                     winnings),
                      !.winners = found.winners,
                      !.awards = PotAwards(m.ledger, found.winners),
                      !.winnings = winnings]

\* HandManager.performShowdown
performShowdown(m, rank) ==
    IF m.state \notin {"SHOWDOWN", "HAND_COMPLETE"}
    THEN Throw(m, "CannotPerformShowdownFromState")
    ELSE Then(dealerDistributePots(m, rank),
              LAMBDA x : IF x.state # "HAND_COMPLETE"
                         THEN setState(x, "HAND_COMPLETE") ELSE x)

\* HandManager.prepareNextHand
prepareNextHand(m) ==
    IF m.state # "HAND_COMPLETE" THEN Throw(m, "CannotPrepareNextHandFromState")
    ELSE LET moved == moveButton(m.t)
             eliminated == {s \in moved.t.seated : isEliminated(moved.t, s)}
             remaining == removePlayers(moved.t, eliminated)
         IN IF ~moved.ok THEN Throw(m, "NoOccupiedSeats")
            ELSE setState([m EXCEPT !.t = remaining,
                                    !.ledger = [mainPot |-> EmptyPot, sidePots |-> << >>],
                                    !.cleared = TRUE],
                          IF playerCount(remaining) < 2
                          THEN "GAME_OVER" ELSE "READY_TO_START")

\* HandManager.reset
reset(m) ==
    [m EXCEPT !.ledger = [mainPot |-> EmptyPot, sidePots |-> << >>],
              !.cleared = TRUE,
              !.t = resetForNewHand(@),
              !.state = "WAITING_FOR_PLAYERS",
              !.handNumber = 0,
              !.tracker = NoTracker]

\* HandManager.recordPlayerAction(playerId, action) for a seated player
recordPlayerAction(m, s, action) ==
    IF m.tracker = NoTracker THEN m
    ELSE [m EXCEPT !.tracker =
             recordAction(@, m.t, s,
                          IF action \in {"bet", "raise"} THEN m.t.currentBet[s] ELSE -1)]

\* HandManager.isBettingRoundComplete
isBettingRoundComplete(tr, t) ==
    IF tr = NoTracker THEN TRUE ELSE isRoundComplete(tr, t)

\* HandManager.getPlayerToAct (NoPlayer for null)
getPlayerToAct(tr, t) ==
    IF tr = NoTracker THEN NoPlayer ELSE getCurrentPlayer(tr, t).player

\* HandManager.isGameOver
isGameOver(state, t) == state = "GAME_OVER" \/ playerCount(t) < 2

\* HandManager.getGameWinner (NoPlayer for null)
getGameWinner(t) == IF playerCount(t) = 1 THEN getPlayers(t)[1] ELSE NoPlayer

\* ------------------------------------------------------------------- Init
\* new Table(config), new HandManager(table): nobody seated, button on seat 0.
Constructed(configMaxSeats, call) ==
    /\ maxSeats = configMaxSeats
    /\ seated = {}
    /\ buttonPosition = 0
    /\ communityCards = 0
    /\ deckRemaining = DeckSize
    /\ chips = [s \in Seats |-> 0]
    /\ currentBet = [s \in Seats |-> 0]
    /\ status = [s \in Seats |-> "NONE"]
    /\ holeCards = [s \in Seats |-> 0]
    /\ handRanking = [s \in Seats |-> 0]
    /\ mainPot = EmptyPot
    /\ sidePots = << >>
    /\ currentState = "WAITING_FOR_PLAYERS"
    /\ handNumber = 0
    /\ bettingTracker = NoTracker
    /\ showdownCalls = 0
    /\ offProtocolCalls = 0
    /\ resetCalls = 0
    /\ lastCall = call
    /\ totalCollected = 0

Init == Constructed(MaxSeats, NoCall)

\* ---------------------------------------------------------------- actions
\* The state a call leaves behind, and the record of the call.
Commit(op, outcome) ==
    \E m \in {outcome} :
        /\ maxSeats' = maxSeats
        /\ seated' = m.t.seated
        /\ buttonPosition' = m.t.buttonPosition
        /\ communityCards' = m.t.communityCards
        /\ deckRemaining' = m.t.deckRemaining
        /\ chips' = m.t.chips
        /\ currentBet' = m.t.currentBet
        /\ status' = m.t.status
        /\ holeCards' = m.t.holeCards
        /\ handRanking' = m.t.handRanking
        /\ mainPot' = m.ledger.mainPot
        /\ sidePots' = m.ledger.sidePots
        /\ currentState' = m.state
        /\ handNumber' = m.handNumber
        /\ bettingTracker' = m.tracker
        /\ totalCollected' = IF m.cleared THEN 0 ELSE totalCollected + m.collected
        /\ resetCalls' = IF op = "reset" THEN resetCalls + 1 ELSE resetCalls
        /\ lastCall' = [op |-> op, err |-> m.err, from |-> currentState,
                        path |-> m.path, refused |-> m.refused, bets |-> m.bets,
                        folded |-> m.folded, allIn |-> m.allIn,
                        potsBefore |-> m.potsBefore, winners |-> m.winners,
                        awards |-> m.awards, winnings |-> m.winnings]

\* table.seatPlayer(new Player(id, name, initialChips), seatPosition), while
\* the players gather for the first hand.
SeatPlayer(s, initialChips) ==
    /\ offProtocolCalls < MaxOffProtocolCalls
    /\ currentState \in {"WAITING_FOR_PLAYERS", "READY_TO_START"}
    /\ handNumber = 0
    /\ s \notin seated
    /\ Commit("seatPlayer",
              [ManagerNow EXCEPT !.t.seated = @ \cup {s},
                                 !.t.chips[s] = initialChips,
                                 !.t.status[s] = "ACTIVE"])
    /\ UNCHANGED <<showdownCalls, offProtocolCalls>>

\* player.sitOut(), before the first hand: the player stays seated and is
\* not dealt in.
SitOut(s) ==
    /\ offProtocolCalls < MaxOffProtocolCalls
    /\ currentState \in {"WAITING_FOR_PLAYERS", "READY_TO_START"}
    /\ handNumber = 0
    /\ s \in seated
    /\ status[s] = "ACTIVE"
    /\ Commit("sitOut",
              [ManagerNow EXCEPT !.t.status[s] = "SITTING_OUT",
                                 !.t.holeCards[s] = 0])
    /\ UNCHANGED <<showdownCalls, offProtocolCalls>>

\* table.setButtonPosition(position), before the first hand.
SetButtonPosition(position) ==
    /\ offProtocolCalls < MaxOffProtocolCalls
    /\ currentState \in {"WAITING_FOR_PLAYERS", "READY_TO_START"}
    /\ handNumber = 0
    /\ position # buttonPosition
    /\ Commit("setButtonPosition", [ManagerNow EXCEPT !.t.buttonPosition = position])
    /\ UNCHANGED <<showdownCalls, offProtocolCalls>>

\* handManager.setReadyToStart(), called as the players gather
\* (gameStore.addPlayer).
SetReadyToStart ==
    /\ offProtocolCalls < MaxOffProtocolCalls
    /\ currentState \in {"WAITING_FOR_PLAYERS", "READY_TO_START"}
    /\ handNumber = 0
    /\ Commit("setReadyToStart", setReadyToStart(ManagerNow))
    /\ UNCHANGED <<showdownCalls, offProtocolCalls>>

StartHand ==
    /\ offProtocolCalls < MaxOffProtocolCalls
    /\ currentState = "READY_TO_START"
    /\ handNumber + resetCalls < MaxHands
    /\ Commit("startHand", startHand(ManagerNow))
    /\ showdownCalls' = 0
    /\ UNCHANGED offProtocolCalls

\* One turn of the betting loop (gameStore.processAIActions): the player
\* the tracker names acts, and the action is recorded with the tracker.
\* kind and amount are the decision; a bet or raise names the total to reach.
\* The store runs a turn when a street opens, and after a turn unless the
\* tracker reports the round complete.
PlayerAction(kind, amount) ==
    /\ offProtocolCalls < MaxOffProtocolCalls
    /\ isBettingState(currentState)
    /\ bettingTracker.round # "NONE"
    /\ \/ ~isRoundComplete(bettingTracker, TableNow)
       \/ bettingTracker.playersActed = {}
    /\ LET turn == getCurrentPlayer(bettingTracker, TableNow)
           s == turn.player
           toCall == getCallAmount(turn.tracker, TableNow, s)
           sizes == {getMinRaise(turn.tracker), currentBet[s] + chips[s]}
           done == CASE kind = "fold" -> fold(TableNow, s)
                     [] kind = "check" -> check(TableNow, s)
                     [] kind = "call" -> raise(TableNow, s, turn.tracker.currentBetAmount)
                     [] kind = "bet" -> bet(TableNow, s, amount)
                     [] OTHER -> raise(TableNow, s, amount)
       IN /\ s # NoPlayer
          /\ kind = "check" => toCall = 0
          /\ kind = "call" => toCall > 0
          /\ kind = "bet" => currentBet[s] = 0 /\ amount \in sizes
          /\ kind = "raise" => currentBet[s] > 0 /\ amount \in sizes
          /\ kind \in {"fold", "check", "call"} => amount = 0
          /\ done.ok
          /\ Commit(kind,
                    [ManagerNow EXCEPT
                       !.t = done.t,
                       !.tracker = recordAction(turn.tracker, done.t, s,
                                                IF kind \in {"bet", "raise"}
                                                THEN done.t.currentBet[s] ELSE -1)])
    /\ UNCHANGED <<showdownCalls, offProtocolCalls>>

\* In a betting state the round is completed when the tracker reports it
\* complete (gameStore.nextBettingRound) or before anybody has acted on the
\* street; outside a betting state the call is made out of turn.
CompleteBettingRound ==
    /\ offProtocolCalls < MaxOffProtocolCalls
    /\ isBettingState(currentState) /\ bettingTracker.round # "NONE" =>
          \/ isRoundComplete(bettingTracker, TableNow)
          \/ bettingTracker.playersActed = {}
    /\ offProtocolCalls' = IF isBettingState(currentState)
                           THEN offProtocolCalls ELSE offProtocolCalls + 1
    /\ Commit("completeBettingRound", completeBettingRound(ManagerNow))
    /\ UNCHANGED showdownCalls

\* rank: the rankings the evaluator gives the cards of this shuffle; a
\* player's ranking stays what an earlier showdown of the hand found, and a
\* player without hole cards, ranked on the board alone, is ranked no higher
\* than anybody else.
PerformShowdown(rank) ==
    /\ offProtocolCalls < MaxOffProtocolCalls
    /\ currentState \in {"SHOWDOWN", "HAND_COMPLETE"}
    /\ \A s \in Seats :
          IF s \in determineWinners(TableNow, rank).evaluated
          THEN rank[s] >= 1 /\ (handRanking[s] # 0 => rank[s] = handRanking[s])
          ELSE rank[s] = handRanking[s]
    /\ \A a, b \in determineWinners(TableNow, rank).evaluated :
          getHoleCards(TableNow, a) = 0 => rank[a] <= rank[b]
    /\ showdownCalls' = showdownCalls + 1
    /\ offProtocolCalls' = IF showdownCalls = 0
                           THEN offProtocolCalls ELSE offProtocolCalls + 1
    /\ Commit("performShowdown", performShowdown(ManagerNow, rank))

\* handManager.recordPlayerAction(playerId, action) on an open street for a
\* seated player who is not the one getPlayerToAct() has just returned: a
\* call made out of turn.  The player's own bet is not touched by it.
RecordPlayerAction(s, action) ==
    /\ offProtocolCalls < MaxOffProtocolCalls
    /\ isBettingState(currentState)
    /\ bettingTracker.round # "NONE"
    /\ s \in seated
    /\ LET turn == getCurrentPlayer(bettingTracker, TableNow)
       IN /\ s # turn.player
          /\ Commit("recordPlayerAction",
                    recordPlayerAction([ManagerNow EXCEPT !.tracker = turn.tracker],
                                       s, action))
    /\ offProtocolCalls' = offProtocolCalls + 1
    /\ UNCHANGED showdownCalls

\* The calls of the lifecycle made when the game is over: all out of turn.
GameOverCall(op) ==
    /\ offProtocolCalls < MaxOffProtocolCalls
    /\ currentState = "GAME_OVER"
    /\ Commit(op, CASE op = "startHand" -> startHand(ManagerNow)
                     [] op = "performShowdown" -> performShowdown(ManagerNow, handRanking)
                     [] op = "prepareNextHand" -> prepareNextHand(ManagerNow)
                     [] OTHER -> setReadyToStart(ManagerNow))
    /\ offProtocolCalls' = offProtocolCalls + 1
    /\ UNCHANGED showdownCalls

\* handManager.reset() when the game is over.  A reset uses up one of the
\* hands the run may start.
Reset ==
    /\ offProtocolCalls < MaxOffProtocolCalls
    /\ currentState = "GAME_OVER"
    /\ resetCalls < MaxResets
    /\ Commit("reset", reset(ManagerNow))
    /\ showdownCalls' = 0
    /\ UNCHANGED offProtocolCalls

PrepareNextHand ==
    /\ offProtocolCalls < MaxOffProtocolCalls
    /\ currentState = "HAND_COMPLETE"
    /\ Commit("prepareNextHand", prepareNextHand(ManagerNow))
    /\ showdownCalls' = 0
    /\ UNCHANGED offProtocolCalls

Next ==
    \/ \E s \in Seats, initialChips \in StackChoices : SeatPlayer(s, initialChips)
    \/ \E s \in Seats : SitOut(s)
    \/ \E position \in Seats : SetButtonPosition(position)
    \/ SetReadyToStart
    \/ StartHand
    \/ \E kind \in {"fold", "check", "call", "bet", "raise"}, amount \in 0 .. MaxStake :
          PlayerAction(kind, amount)
    \/ CompleteBettingRound
    \/ \E s \in Seats, action \in {"fold", "check", "call", "bet", "raise"} :
          RecordPlayerAction(s, action)
    \/ \E rank \in [Seats -> 0 .. MaxRank] : PerformShowdown(rank)
    \/ PrepareNextHand
    \/ \E op \in {"startHand", "performShowdown", "prepareNextHand", "setReadyToStart"} :
          GameOverCall(op)
    \/ Reset

Spec == Init /\ [][Next]_vars

\* The betting loop keeps running: after an action that leaves the round
\* open the store schedules the next turn (processAIActions, setTimeout), so
\* a turn that stays possible is taken.
Turn ==
    \E kind \in {"fold", "check", "call", "bet", "raise"}, amount \in 0 .. MaxStake :
       PlayerAction(kind, amount)

\* The hand up to the showdown: the players gather, a hand is started, and
\* the streets are played and completed.
BettingNext ==
    \/ \E s \in Seats, initialChips \in StackChoices : SeatPlayer(s, initialChips)
    \/ \E s \in Seats : SitOut(s)
    \/ \E position \in Seats : SetButtonPosition(position)
    \/ SetReadyToStart
    \/ StartHand
    \/ Turn
    \/ CompleteBettingRound

BettingSpec == Init /\ [][BettingNext]_vars /\ WF_vars(Turn)

\* ------------------------------------------- the store's game loop
\* gameStore drives a hand with timers.  After an action that leaves the
\* round complete (playerAction, processAIActions) it schedules
\* nextBettingRound; nextBettingRound calls completeBettingRound and then
\* schedules processAIActions for a betting state and performShowdown for
\* Showdown, and nothing for any other state; the showdown timer schedules
\* prepareNextHand, and that one startHand.  What is scheduled is read off
\* the state and the last call.
PlayerActions == {"fold", "check", "call", "bet", "raise"}

\* nextBettingRound is scheduled: an action has just left the round complete.
nextBettingRoundPending ==
    /\ isBettingState(currentState)
    /\ lastCall.op \in PlayerActions
    /\ isBettingRoundComplete(bettingTracker, TableNow)

nextBettingRound == nextBettingRoundPending /\ CompleteBettingRound

ShowdownTimer ==
    /\ currentState = "SHOWDOWN"
    /\ lastCall.op = "completeBettingRound"
    /\ \E rank \in [Seats -> 0 .. MaxRank] : PerformShowdown(rank)

PrepareNextHandTimer ==
    /\ lastCall.op = "performShowdown"
    /\ PrepareNextHand

StoreNext ==
    \/ \E s \in Seats, initialChips \in StackChoices : SeatPlayer(s, initialChips)
    \/ \E s \in Seats : SitOut(s)
    \/ \E position \in Seats : SetButtonPosition(position)
    \/ SetReadyToStart
    \/ StartHand
    \/ Turn
    \/ nextBettingRound
    \/ ShowdownTimer
    \/ PrepareNextHandTimer

\* Every timer that is set fires, and a player whose turn it is acts.
\* nextBettingRound is enabled exactly when it is pending, which states its
\* weak fairness without ENABLED.
StoreSpec ==
    /\ Init /\ [][StoreNext]_vars
    /\ WF_vars(Turn) /\ WF_vars(ShowdownTimer) /\ WF_vars(PrepareNextHandTimer)
    /\ ([]<>~nextBettingRoundPending \/ []<><<nextBettingRound>>_vars)

\* ------------------------------------- the acting order at a wider table
\* The players gather at a table of WideMaxSeats seats, any seats, and the
\* first hand is started: every set of occupied seats with every button
\* position.
WideInit == Constructed(WideMaxSeats, NoCall)

OrderNext ==
    \/ \E s \in Seats, initialChips \in StackChoices : SeatPlayer(s, initialChips)
    \/ \E s \in Seats : SitOut(s)
    \/ \E position \in Seats : SetButtonPosition(position)
    \/ SetReadyToStart
    \/ StartHand

OrderSpec == WideInit /\ [][OrderNext]_vars

\* --------------------------------------------- the pot ledger on its own
PositiveSum(playerBets) ==
    SumSeats([s \in Seats |-> Max(playerBets[s], 0)])

\* All duplicate-free lists of players (Dealer.determineWinners lists each
\* winner once).
WinnerLists ==
    {w \in UNION {[1 .. n -> Seats] : n \in 0 .. maxSeats} :
        \A i, j \in DOMAIN w : i # j => w[i] # w[j]}

PotCollect(playerBets, allInPlayers, foldedPlayers) ==
    /\ PotCount(Ledger) = 0
    /\ LET after == collectBets(Ledger, playerBets, allInPlayers, foldedPlayers)
       IN /\ mainPot' = after.mainPot
          /\ sidePots' = after.sidePots
    /\ totalCollected' = totalCollected + PositiveSum(playerBets)
    /\ lastCall' = [NoCall EXCEPT !.op = "collectBets", !.bets = playerBets,
                                  !.folded = foldedPlayers, !.allIn = allInPlayers,
                                  !.potsBefore = PotCount(Ledger)]
    /\ UNCHANGED <<tableVars, managerVars>>

PotDistribute(winners) ==
    /\ lastCall' = [NoCall EXCEPT !.op = "distributePots", !.winners = winners,
                                  !.awards = PotAwards(Ledger, winners),
                                  !.winnings = distributePots(Ledger, winners)]
    /\ UNCHANGED <<tableVars, managerVars, mainPot, sidePots, totalCollected>>

PotReset ==
    /\ mainPot' = EmptyPot
    /\ sidePots' = << >>
    /\ totalCollected' = 0
    /\ lastCall' = [NoCall EXCEPT !.op = "reset"]
    /\ UNCHANGED <<tableVars, managerVars>>

PotNext ==
    \/ \E playerBets \in [Seats -> 0 .. MaxBet], foldedPlayers \in SUBSET Seats :
          PotCollect(playerBets, {}, foldedPlayers)
    \/ \E winners \in WinnerLists : PotDistribute(winners)
    \/ PotReset

PotSpec == Init /\ [][PotNext]_vars

StreetCollect(playerBets, newlyFolded) ==
    /\ totalCollected + PositiveSum(playerBets) <= MaxPotTotal
    /\ PositiveSum(playerBets) > 0
    /\ \A s \in Seats : status[s] = "FOLDED" => playerBets[s] = 0 /\ s \notin newlyFolded
    /\ status' = [s \in Seats |-> IF s \in newlyFolded THEN "FOLDED" ELSE status[s]]
    /\ LET after == collectBets(Ledger, playerBets, {}, {s \in Seats : status'[s] = "FOLDED"})
       IN /\ mainPot' = after.mainPot
          /\ sidePots' = after.sidePots
    /\ totalCollected' = totalCollected + PositiveSum(playerBets)
    /\ lastCall' = [NoCall EXCEPT !.op = "collectBets", !.bets = playerBets,
                                  !.folded = {s \in Seats : status'[s] = "FOLDED"},
                                  !.potsBefore = PotCount(Ledger)]
    /\ UNCHANGED <<maxSeats, seated, buttonPosition, communityCards, deckRemaining, chips, currentBet, holeCards, handRanking, managerVars>>

StreetReset ==
    /\ mainPot' = EmptyPot
    /\ sidePots' = << >>
    /\ totalCollected' = 0
    /\ status' = [s \in Seats |-> "NONE"]
    /\ lastCall' = [NoCall EXCEPT !.op = "reset"]
    /\ UNCHANGED <<maxSeats, seated, buttonPosition, communityCards, deckRemaining, chips, currentBet, holeCards, handRanking, managerVars>>

StreetNext ==
    \/ \E playerBets \in [Seats -> 0 .. MaxBet], newlyFolded \in SUBSET Seats :
          StreetCollect(playerBets, newlyFolded)
    \/ StreetReset

StreetSpec == Init /\ [][StreetNext]_vars

\* ------------------------------------------- the evaluator on its own
\* The cards the evaluator is handed are drawn from small decks.  HandDeck:
\* two suits of the values that make the runs at both ends of the ranks.
HandDeck == {<<value, suit>> : value \in {2, 3, 4, 5, 6, 10, 11, 12, 13, 14}, suit \in 1 .. 2}

\* BestDeck: four Aces, pairs of Kings and of 5, 4, 3, 2, and two more cards
\* of the first suit.
BestDeck ==
    {<<14, suit>> : suit \in 1 .. 4}
       \cup {<<value, suit>> : value \in {13, 5, 4, 3, 2}, suit \in 1 .. 2}
       \cup {<<12, 1>>, <<9, 1>>}

\* CompareDeck: Ace to 9 of the first suit and the Ace of the second, for
\* the hands without a pair or with one.
CompareDeck == {<<value, 1>> : value \in 9 .. 14} \cup {<<14, 2>>}

\* PairedDeck: four Aces, two Kings and a Queen, for the hands of two
\* pairs, three and four of a kind and the full house.
PairedDeck == {<<14, suit>> : suit \in 1 .. 4} \cup {<<13, 1>>, <<13, 2>>, <<12, 1>>}

\* The sets of k cards of a deck.
RECURSIVE CardsOf(_, _)
CardsOf(deck, k) ==
    IF k = 0 THEN {{}}
    ELSE IF deck = {} THEN {}
    ELSE LET card == CHOOSE c \in deck : TRUE
         IN CardsOf(deck \ {card}, k)
               \cup {rest \cup {card} : rest \in CardsOf(deck \ {card}, k - 1)}

HandInputs == CardsOf(HandDeck, 5)

BestInputs == CardsOf(BestDeck, 7)

CompareInputs == CardsOf(CompareDeck, 5) \cup CardsOf(PairedDeck, 5)

\* A set of cards as a list, by value and then suit.
RECURSIVE InOrder(_)
InOrder(cards) ==
    IF cards = {} THEN << >>
    ELSE LET first == CHOOSE c \in cards :
                         \A d \in cards : c[1] < d[1] \/ (c[1] = d[1] /\ c[2] <= d[2])
         IN <<first>> \o InOrder(cards \ {first})

\* The evaluator is static: a call leaves the table and the manager alone.
EvaluatorCall(call) ==
    /\ lastCall.op = "none"
    /\ lastCall' = call
    /\ UNCHANGED <<tableVars, managerVars, mainPot, sidePots, totalCollected>>

HandInit ==
    \E cards \in HandInputs : Constructed(MaxSeats, [op |-> "none", cards |-> cards])

EvaluateHand ==
    EvaluatorCall([op |-> "evaluateHand", cards |-> lastCall.cards,
                   hand |-> evaluateHand(lastCall.cards)])

HandSpec == HandInit /\ [][EvaluateHand]_vars

BestInit ==
    \E cards \in BestInputs :
       Constructed(MaxSeats, [op |-> "none", cards |-> InOrder(cards)])

EvaluateBest7CardHand ==
    EvaluatorCall([op |-> "evaluateBest7CardHand", cards |-> lastCall.cards,
                   hand |-> evaluateBest7CardHand(lastCall.cards)])

BestSpec == BestInit /\ [][EvaluateBest7CardHand]_vars

CompareInit ==
    \E a, b, c \in CompareInputs :
       Constructed(MaxSeats, [op |-> "none", cards |-> <<a, b, c>>,
                              hands |-> <<evaluateHand(a), evaluateHand(b), evaluateHand(c)>>])

CompareTo ==
    EvaluatorCall([op |-> "compareTo", cards |-> lastCall.cards, hands |-> lastCall.hands,
                   result |-> [i \in 1 .. 3 |->
                                 [j \in 1 .. 3 |->
                                    compareTo(lastCall.hands[i], lastCall.hands[j])]]])

CompareSpec == CompareInit /\ [][CompareTo]_vars

\* ============================================================ properties
\* ---------------------------------------------------- pot ledger (C1, C5-C9)
\* The pots holding the layers of the last collectBets call, for a call made
\* on an empty ledger: one per distinct positive amount, in ascending order.
BetLevels(playerBets) ==
    SortAscending({playerBets[s] : s \in Seats} \ {0})

PreviousLevel(levels, k) == IF k = 1 THEN 0 ELSE levels[k - 1]

ReachingLevel(playerBets, level) == {s \in Seats : playerBets[s] >= level}

\* C1: between two resets of the pot ledger, after any sequence of
\* collectBets calls, the totals of the main pot and of all side pots add up
\* to the sum of all positive per-player amounts passed to those calls.
C1_PotConservation ==
    getTotalPotAmount(Ledger) = totalCollected

\* A second collectBets call on a ledger that already held two pots.
C1_Witness ==
    /\ lastCall.op = "collectBets"
    /\ lastCall.potsBefore >= 2
    /\ Len(sidePots) >= 2
    /\ totalCollected >= 4

\* C5: for one collectBets call, the layer built for each distinct level has
\* total (level - previous level) x (number of players whose amount reaches
\* the level), and its eligible set is exactly those players minus the
\* folded ones.
C5_LayerTotalsAndEligibility ==
    lastCall.op = "collectBets" /\ lastCall.potsBefore = 0 =>
        LET levels == BetLevels(lastCall.bets)
        IN Len(levels) > 0 =>
             /\ Len(AllPots(Ledger)) = Len(levels)
             /\ \A k \in 1 .. Len(levels) :
                  LET reaching == ReachingLevel(lastCall.bets, levels[k])
                  IN /\ PotTotal(AllPots(Ledger)[k])
                          = (levels[k] - PreviousLevel(levels, k)) * Cardinality(reaching)
                     /\ AllPots(Ledger)[k].eligible = reaching \ lastCall.folded

\* Three levels, and a folded player among the contributors.
C5_Witness ==
    /\ lastCall.op = "collectBets"
    /\ lastCall.potsBefore = 0
    /\ Len(BetLevels(lastCall.bets)) = 3
    /\ \E s \in lastCall.folded : lastCall.bets[s] > 0

\* The pots of the ledger that have an eligible player in a winner list.
HasEligibleWinner(pot, winners) ==
    \E i \in 1 .. Len(winners) : winners[i] \in pot.eligible

\* C7: for any winner list, the amounts returned by distributePots add up to
\* the totals of the pots that have at least one eligible player in the list.
C7_DistributedSum ==
    lastCall.op = "distributePots" =>
        SumSeats(lastCall.winnings)
          = SumRange([k \in 1 .. Len(AllPots(Ledger)) |->
                        IF HasEligibleWinner(AllPots(Ledger)[k], lastCall.winners)
                        THEN PotTotal(AllPots(Ledger)[k]) ELSE 0],
                     1, Len(AllPots(Ledger)))

\* A pot split with an odd chip next to a pot without an eligible winner.
C7_Witness ==
    /\ lastCall.op = "distributePots"
    /\ Len(sidePots) >= 1
    /\ PotTotal(sidePots[1]) > 0
    /\ ~HasEligibleWinner(sidePots[1], lastCall.winners)
    /\ Len(EligibleWinners(mainPot, lastCall.winners)) = 2
    /\ PotTotal(mainPot) % 2 = 1

\* C8: a player who is not in a pot's eligible set receives nothing from that
\* pot, whatever the winner list.
C8_NoAwardWithoutEligibility ==
    lastCall.op = "distributePots" =>
        \A k \in 1 .. Len(AllPots(Ledger)) :
            \A s \in Seats :
                s \notin AllPots(Ledger)[k].eligible => lastCall.awards[k][s] = 0

\* A listed winner is paid from the main pot and is not eligible for a side
\* pot that holds chips and pays somebody else.
C8_Witness ==
    /\ lastCall.op = "distributePots"
    /\ Len(sidePots) >= 1
    /\ \E i \in 1 .. Len(lastCall.winners) :
          /\ lastCall.winners[i] \notin sidePots[1].eligible
          /\ lastCall.awards[1][lastCall.winners[i]] > 0
    /\ \E s \in Seats : lastCall.awards[2][s] > 0

\* C9: when a pot with total T has n >= 1 eligible winners in the supplied
\* list, each of them receives floor(T / n) from it, and the remainder
\* T mod n goes entirely to the first of them in the supplied order.
C9_EvenSplitOddChipFirst ==
    lastCall.op = "distributePots" =>
        \A k \in 1 .. Len(AllPots(Ledger)) :
            LET pot == AllPots(Ledger)[k]
                listed == SelectSeq(lastCall.winners, LAMBDA w : w \in pot.eligible)
                n == Len(listed)
            IN n >= 1 =>
                 \A i \in 1 .. n :
                     lastCall.awards[k][listed[i]]
                       = (PotTotal(pot) \div n)
                         + (IF i = 1 THEN PotTotal(pot) % n ELSE 0)

\* Two eligible winners share a pot with an odd chip, listed after a player
\* who is not eligible for it.
C9_Witness ==
    /\ lastCall.op = "distributePots"
    /\ Len(lastCall.winners) = 3
    /\ lastCall.winners[1] \notin mainPot.eligible
    /\ PotTotal(mainPot) % 2 = 1
    /\ lastCall.awards[1][lastCall.winners[2]] = lastCall.awards[1][lastCall.winners[3]] + 1

\* ------------------------------------------- hand lifecycle (C2-C4, C6, C10)
\* The transition graph as the specification draws it: the path from
\* WaitingForPlayers to HandComplete, HandComplete to ReadyToStart or
\* GameOver, and every betting state directly to HandComplete or Showdown.
LifecyclePath ==
    <<"WAITING_FOR_PLAYERS", "READY_TO_START", "POSTING_BLINDS",
      "DEALING_HOLE_CARDS", "PREFLOP_BETTING", "DEALING_FLOP", "FLOP_BETTING",
      "DEALING_TURN", "TURN_BETTING", "DEALING_RIVER", "RIVER_BETTING",
      "SHOWDOWN", "HAND_COMPLETE">>

GraphEdges ==
    {<<LifecyclePath[i], LifecyclePath[i + 1]>> : i \in 1 .. Len(LifecyclePath) - 1}
    \cup {<<"HAND_COMPLETE", "READY_TO_START">>, <<"HAND_COMPLETE", "GAME_OVER">>}
    \cup {<<LifecyclePath[i], "HAND_COMPLETE">> : i \in {5, 7, 9, 11}}
    \cup {<<LifecyclePath[i], "SHOWDOWN">> : i \in {5, 7, 9, 11}}

\* C2: at showdown each pot contested by two or more eligible players still
\* in the hand is paid, in full, to the best hand(s) among them; so when a
\* player all-in for less has the best hand overall, that player gets the
\* main pot and the side pot goes to the better of the others.
C2_EachPotToItsBestHand ==
    lastCall.op = "performShowdown" /\ lastCall.err = "none" =>
        \A k \in 1 .. Len(AllPots(Ledger)) :
            LET pot == AllPots(Ledger)[k]
                contenders == {s \in pot.eligible : s \in seated /\ status[s] # "FOLDED"}
                best == {s \in contenders :
                           \A o \in contenders : handRanking[o] <= handRanking[s]}
            IN PotTotal(pot) > 0 /\ Cardinality(contenders) >= 2 =>
                 /\ \A s \in Seats : lastCall.awards[k][s] > 0 => s \in best
                 /\ SumSeats(lastCall.awards[k]) = PotTotal(pot)

\* C3: every change of the lifecycle state made by a call follows edges of
\* the transition graph; a move that is not an edge is refused with
\* InvalidStateTransition and the state stays what it was before the move.
\* (reset() is not one of the calls: it assigns WaitingForPlayers directly.)
C3_TransitionsFollowGraph ==
    [][lastCall'.op # "reset" =>
         LET visited == <<currentState>> \o lastCall'.path
         IN /\ \A i \in 1 .. Len(visited) - 1 :
                  <<visited[i], visited[i + 1]>> \in GraphEdges
            /\ currentState' = visited[Len(visited)]
            /\ lastCall'.refused # "none" =>
                  /\ <<currentState', lastCall'.refused>> \notin GraphEdges
                  /\ lastCall'.err = "InvalidStateTransition"
            /\ lastCall'.err = "InvalidStateTransition" => lastCall'.refused # "none"
      ]_vars

\* completeBettingRound, called where no hand is being played, was refused
\* the move it attempted and left the state alone.
C3_Witness ==
    /\ lastCall.op = "completeBettingRound"
    /\ lastCall.err = "InvalidStateTransition"
    /\ lastCall.refused = "HAND_COMPLETE"
    /\ lastCall.path = << >>
    /\ currentState = lastCall.from

\* C4: once the bets of a street are collected, a player who has folded is
\* in the eligible set of no pot of the hand, and the pot totals still hold
\* every chip collected.
C4_FoldedNeverEligible ==
    lastCall.op = "completeBettingRound" /\ isBettingState(lastCall.from) =>
        /\ \A s \in seated :
              status[s] = "FOLDED" =>
                 \A k \in 1 .. Len(AllPots(Ledger)) : s \notin AllPots(Ledger)[k].eligible
        /\ getTotalPotAmount(Ledger) = totalCollected

\* C6: the first layer of each collectBets call becomes or extends the main
\* pot: when the bets of a street are collected in a hand that has no side
\* pot, and the two or more players who bet all put in the same amount
\* (nobody is in for less than the others, nobody is all-in), the ledger
\* still has no side pot afterwards.
C6_EqualBetsExtendMainPot ==
    [][/\ lastCall'.op = "completeBettingRound"
       /\ isBettingState(currentState)
       /\ offProtocolCalls = 0
       /\ Len(sidePots) = 0
       /\ \A s \in seated : status[s] # "ALL_IN"
       /\ Cardinality({currentBet[s] : s \in seated} \ {0}) = 1
       /\ Cardinality({s \in seated : currentBet[s] > 0}) >= 2
       => Len(sidePots') = 0
      ]_vars

\* C10: startHand, called in ReadyToStart with at least two active players,
\* returns in PreflopBetting with handNumber one higher, a new preflop
\* tracker and exactly two hole cards held by every active player.
C10_StartHandOpensPreflop ==
    [][/\ lastCall'.op = "startHand"
       /\ currentState = "READY_TO_START"
       /\ Cardinality(getActivePlayers(TableNow)) >= 2
       => /\ currentState' = "PREFLOP_BETTING"
          /\ handNumber' = handNumber + 1
          /\ bettingTracker'.round = "PREFLOP"
          /\ bettingTracker'.playersActed = {}
          /\ \A s \in seated' :
                status'[s] \in {"ACTIVE", "ALL_IN"} => holeCards'[s] = 2
      ]_vars

\* C11: when startHand finds both blind players among at least two active
\* players it does not fail, the small-blind player has committed
\* min(stack, small blind) and the big-blind player min(stack, big blind),
\* and a player whose stack does not exceed the blind is left all-in with no
\* chips.
C11_BlindsPostedShortStackAllIn ==
    [][LET t == prepareNewHand(TableNow)
           sbPlayer == getSmallBlindPlayer(t)
           bbPlayer == getBigBlindPlayer(t)
       IN /\ lastCall'.op = "startHand"
          /\ Cardinality(getActivePlayers(t)) >= 2
          /\ sbPlayer \in getActivePlayers(t) /\ bbPlayer \in getActivePlayers(t)
          => /\ lastCall'.err = "none"
             /\ currentBet'[sbPlayer] = Min(chips[sbPlayer], SmallBlind)
             /\ currentBet'[bbPlayer] = Min(chips[bbPlayer], BigBlind)
             /\ chips'[sbPlayer] = chips[sbPlayer] - currentBet'[sbPlayer]
             /\ chips'[bbPlayer] = chips[bbPlayer] - currentBet'[bbPlayer]
             /\ chips[sbPlayer] <= SmallBlind => status'[sbPlayer] = "ALL_IN"
             /\ chips[bbPlayer] <= BigBlind => status'[bbPlayer] = "ALL_IN"
      ]_vars

\* startHand has returned and the big-blind player, short of the big blind,
\* has posted the whole stack and is all-in.
C11_Witness ==
    /\ lastCall.op = "startHand"
    /\ lastCall.err = "none"
    /\ currentState = "PREFLOP_BETTING"
    /\ getBigBlindPlayer(TableNow) # NoPlayer
    /\ currentBet[getBigBlindPlayer(TableNow)] > 0
    /\ currentBet[getBigBlindPlayer(TableNow)] < BigBlind
    /\ chips[getBigBlindPlayer(TableNow)] = 0
    /\ status[getBigBlindPlayer(TableNow)] = "ALL_IN"

\* C12: startHand, called in ReadyToStart while fewer than two players are
\* active once the statuses of the last hand are reset, fails with
\* InsufficientPlayers: no blind is posted, no card dealt, no betting opened.
C12_TooFewPlayersRefused ==
    [][/\ lastCall'.op = "startHand"
       /\ currentState = "READY_TO_START"
       /\ Cardinality(getActivePlayers(prepareNewHand(TableNow))) < 2
       => /\ lastCall'.err = "InsufficientPlayers"
          /\ currentState' = "READY_TO_START"
          /\ \A s \in Seats : currentBet'[s] = 0 /\ holeCards'[s] = 0
          /\ bettingTracker' = bettingTracker
      ]_vars

\* startHand was refused for lack of players at a table where somebody sits.
C12_Witness ==
    /\ lastCall.op = "startHand"
    /\ lastCall.err = "InsufficientPlayers"
    /\ lastCall.from = "READY_TO_START"
    /\ seated # {}
    /\ Cardinality(getActivePlayers(TableNow)) < 2

\* The betting state one street after a betting state (Showdown after the
\* river).
NextStreet(state) ==
    CASE state = "PREFLOP_BETTING" -> "FLOP_BETTING"
      [] state = "FLOP_BETTING" -> "TURN_BETTING"
      [] state = "TURN_BETTING" -> "RIVER_BETTING"
      [] OTHER -> "SHOWDOWN"

StreetRound(state) ==
    CASE state = "FLOP_BETTING" -> "FLOP"
      [] state = "TURN_BETTING" -> "TURN"
      [] state = "RIVER_BETTING" -> "RIVER"
      [] OTHER -> "NONE"

\* Players still in the hand who are not all-in.
PlayersWhoCanAct(t) == {s \in getActivePlayers(t) : t.status[s] # "ALL_IN"}

\* C13: while at least two players can still act, a completeBettingRound
\* call in a betting state moves the hand exactly one street forward, adds
\* the live bets to the pot, zeroes every bet counter and opens a fresh
\* tracker for the new street; and there are 3 community cards in
\* FlopBetting, 4 in TurnBetting and 5 in RiverBetting.
C13_OneStreetForward ==
    [][/\ (/\ lastCall'.op = "completeBettingRound"
           /\ isBettingState(currentState)
           /\ Cardinality(PlayersWhoCanAct(TableNow)) >= 2)
          => /\ lastCall'.err = "none"
             /\ currentState' = NextStreet(currentState)
             /\ getTotalPotAmount([mainPot |-> mainPot', sidePots |-> sidePots'])
                  = getTotalPotAmount(Ledger) + SumSeats(currentBet)
             /\ \A s \in Seats : currentBet'[s] = 0
             /\ bettingTracker'.round = StreetRound(currentState')
             /\ bettingTracker'.playersActed = {}
             /\ bettingTracker'.currentBetAmount = 0
             /\ bettingTracker'.currentActionIndex = 0
             /\ currentState' # "SHOWDOWN" =>
                   {bettingTracker'.playerIdOrder[i] :
                      i \in 1 .. Len(bettingTracker'.playerIdOrder)}
                   = getActivePlayers(TableNow)
       /\ (currentState' = "FLOP_BETTING" => communityCards' = 3)
       /\ (currentState' = "TURN_BETTING" => communityCards' = 4)
       /\ (currentState' = "RIVER_BETTING" => communityCards' = 5)
      ]_vars

\* The hand has been taken street by street to the river betting.
C13_Witness ==
    /\ lastCall.op = "completeBettingRound"
    /\ lastCall.from = "TURN_BETTING"
    /\ currentState = "RIVER_BETTING"
    /\ communityCards = 5
    /\ bettingTracker.round = "RIVER"
    /\ getTotalPotAmount(Ledger) > 0
    /\ Cardinality(PlayersWhoCanAct(TableNow)) >= 2

\* C14: completeBettingRound, called in a betting state with at most one
\* active player left, ends in HandComplete and deals no community card.
C14_FoldOutEndsHand ==
    [][/\ lastCall'.op = "completeBettingRound"
       /\ isBettingState(currentState)
       /\ Cardinality(getActivePlayers(TableNow)) <= 1
       => /\ lastCall'.err = "none"
          /\ currentState' = "HAND_COMPLETE"
          /\ communityCards' = communityCards
          /\ deckRemaining' = deckRemaining
      ]_vars

\* Everybody but one player folded before the flop and the round was
\* completed.
C14_Witness ==
    /\ lastCall.op = "completeBettingRound"
    /\ lastCall.from = "PREFLOP_BETTING"
    /\ currentState = "HAND_COMPLETE"
    /\ communityCards = 0
    /\ Cardinality(getActivePlayers(TableNow)) = 1
    /\ \E s \in seated : status[s] = "FOLDED"

\* The cards that leave the deck when the board is run out from n community
\* cards: a burn card before the flop, the turn and the river.
RunOutCards(n) ==
    (IF n < 3 THEN 4 ELSE 0) + (IF n < 4 THEN 2 ELSE 0) + (IF n < 5 THEN 2 ELSE 0)

\* C15: completeBettingRound, called in a betting state with two or more
\* players left in the hand of whom at most one is not all-in, deals the
\* missing community cards (flop, turn, river) so that exactly 5 are on the
\* table and moves straight to Showdown.
C15_AllInRunOut ==
    [][/\ lastCall'.op = "completeBettingRound"
       /\ isBettingState(currentState)
       /\ Cardinality(getActivePlayers(TableNow)) >= 2
       /\ Cardinality(PlayersWhoCanAct(TableNow)) <= 1
       => /\ lastCall'.err = "none"
          /\ currentState' = "SHOWDOWN"
          /\ lastCall'.path = <<"SHOWDOWN">>
          /\ communityCards' = 5
          /\ deckRemaining' = deckRemaining - RunOutCards(communityCards)
      ]_vars

\* Players went all-in before the flop and the whole board was dealt at once.
C15_Witness ==
    /\ lastCall.op = "completeBettingRound"
    /\ lastCall.from = "PREFLOP_BETTING"
    /\ currentState = "SHOWDOWN"
    /\ communityCards = 5
    /\ Cardinality(getActivePlayers(TableNow)) >= 2
    /\ Cardinality(PlayersWhoCanAct(TableNow)) <= 1

\* The players a list names.
Listed(list) == {list[i] : i \in 1 .. Len(list)}

C17_LoneSurvivorWinsUnevaluated ==
    [][/\ lastCall'.op = "performShowdown"
       /\ showdownCalls = 0
       /\ Cardinality(getActivePlayers(TableNow)) = 1
       /\ \E s \in seated : status[s] = "FOLDED"
       => LET survivor == CHOOSE s \in getActivePlayers(TableNow) : TRUE
              pots == AllPots(Ledger)
          IN /\ lastCall'.err = "none"
             /\ lastCall'.winners = <<survivor>>
             /\ handRanking' = handRanking
             /\ \A s \in Seats : s # survivor => chips'[s] = chips[s]
             /\ chips'[survivor] = chips[survivor]
                  + SumRange([k \in 1 .. Len(pots) |->
                                IF survivor \in pots[k].eligible
                                THEN PotTotal(pots[k]) ELSE 0], 1, Len(pots))
      ]_vars

\* C18: prepareNextHand, called in HandComplete, removes exactly the players
\* with no chips, leaves the pot ledger empty, and moves to ReadyToStart when
\* two or more players remain and to GameOver otherwise; then isGameOver()
\* is true and getGameWinner() is the one remaining player.
C18_NextHandOrGameOver ==
    [][/\ lastCall'.op = "prepareNextHand"
       /\ currentState = "HAND_COMPLETE"
       => LET after == [TableNow EXCEPT !.seated = seated']
          IN /\ lastCall'.err = "none"
             /\ seated' = {s \in seated : chips[s] > 0}
             /\ \A s \in seated' : chips'[s] = chips[s]
             /\ mainPot' = EmptyPot /\ sidePots' = << >>
             /\ Cardinality(seated') >= 2 => currentState' = "READY_TO_START"
             /\ Cardinality(seated') < 2 =>
                   /\ currentState' = "GAME_OVER"
                   /\ isGameOver(currentState', after)
                   /\ Cardinality(seated') = 1
                   /\ getGameWinner(after) \in seated'
      ]_vars

\* A player who lost every chip was removed and the game ended with the
\* other player as its winner.
C18_Witness ==
    /\ lastCall.op = "prepareNextHand"
    /\ lastCall.err = "none"
    /\ currentState = "GAME_OVER"
    /\ isGameOver(currentState, TableNow)
    /\ getGameWinner(TableNow) # NoPlayer
    /\ chips[getGameWinner(TableNow)] > 0
    /\ mainPot = EmptyPot /\ sidePots = << >>

\* C19: after prepareNextHand has returned with somebody left at the table,
\* the button is on the seat of a player who is still seated.
C19_ButtonOnSeatedPlayer ==
    [][/\ lastCall'.op = "prepareNextHand"
       /\ lastCall'.err = "none"
       /\ seated' # {}
       => buttonPosition' \in seated'
      ]_vars

\* C20: when startHand opens the preflop betting between exactly two active
\* players, one of whom sits on the button, the button player has posted the
\* small blind and is first in the acting order, and the other player has
\* posted the big blind and is last.
C20_HeadsUpButtonActsFirst ==
    [][LET t == prepareNewHand(TableNow)
           active == getActivePlayers(t)
       IN /\ lastCall'.op = "startHand"
          /\ lastCall'.err = "none"
          /\ Cardinality(active) = 2
          /\ buttonPosition \in active
          => LET other == CHOOSE s \in active : s # buttonPosition
             IN /\ currentBet'[buttonPosition] = Min(chips[buttonPosition], SmallBlind)
                /\ currentBet'[other] = Min(chips[other], BigBlind)
                /\ bettingTracker'.playerIdOrder = <<buttonPosition, other>>
      ]_vars

\* ------------------------------------------------ acting order (C21, C22)
\* The players of a set in clockwise seat order, starting with the seat
\* after position and ending with position itself.
ClockwiseAfter(players, position) ==
    SelectSeq([d \in 1 .. maxSeats |-> (position + d) % maxSeats],
              LAMBDA seat : seat \in players)

\* C21: when startHand opens the preflop betting among three or more active
\* players, the big-blind player among them, the acting order is the active
\* players in clockwise seat order starting with the first one after the
\* big-blind seat and ending with the big-blind player.
C21_PreflopOrderFromUnderTheGun ==
    [][LET t == prepareNewHand(TableNow)
           active == getActivePlayers(t)
           bbPos == getBigBlindPosition(t)
       IN /\ lastCall'.op = "startHand" /\ lastCall'.err = "none"
          /\ Cardinality(active) >= 3
          /\ bbPos \in active
          => bettingTracker'.playerIdOrder = ClockwiseAfter(active, bbPos)
      ]_vars

\* C22: when completeBettingRound opens the flop, turn or river betting, the
\* acting order is the active players in clockwise seat order starting with
\* the first one after the button and ending with the button player when
\* that player is active.
C22_PostFlopOrderFromButton ==
    [][/\ lastCall'.op = "completeBettingRound" /\ lastCall'.err = "none"
       /\ isBettingState(currentState)
       /\ currentState' \in {"FLOP_BETTING", "TURN_BETTING", "RIVER_BETTING"}
       => bettingTracker'.playerIdOrder =
             ClockwiseAfter(getActivePlayers(TableNow'), buttonPosition')
      ]_vars

\* ------------------------------------------------- betting tracker (C23-C26)
\* C23: the tracker startHand opens for the preflop betting starts with the
\* current bet at the table's big blind, whatever the big-blind player could
\* post, and the tracker completeBettingRound opens for the flop, turn or
\* river starts with the current bet at 0.
C23_StartingBet ==
    [][/\ (/\ lastCall'.op = "startHand" /\ lastCall'.err = "none"
           => bettingTracker'.currentBetAmount = BigBlind)
       /\ (/\ lastCall'.op = "completeBettingRound" /\ lastCall'.err = "none"
           /\ isBettingState(currentState)
           /\ currentState' \in {"FLOP_BETTING", "TURN_BETTING", "RIVER_BETTING"}
           => bettingTracker'.currentBetAmount = 0)
      ]_vars

\* C24: while a street is open, isRoundComplete() is true exactly when at
\* most one player of the hand is neither folded nor all-in, or every such
\* player has committed at least the current bet and has acted on this
\* street.
C24_RoundCompleteExactly ==
    bettingTracker.round # "NONE" =>
       (isRoundComplete(bettingTracker, TableNow)
          <=> \/ Cardinality({s \in seated : status[s] = "ACTIVE"}) <= 1
              \/ \A s \in seated : status[s] = "ACTIVE" =>
                     /\ currentBet[s] >= bettingTracker.currentBetAmount
                     /\ s \in bettingTracker.playersActed)

\* A street is open, two players or more can still act, all of them have
\* acted and matched a positive bet: the round is complete.
C24_Witness ==
    /\ bettingTracker.round # "NONE"
    /\ Cardinality({s \in seated : status[s] = "ACTIVE"}) >= 2
    /\ bettingTracker.currentBetAmount > 0
    /\ \E s \in seated : status[s] = "FOLDED"
    /\ isRoundComplete(bettingTracker, TableNow)

\* C25: while a street is open, the player getCurrentPlayer() returns is
\* neither folded nor all-in and has not both acted and matched the current
\* bet; and it returns null only when no player who acted earlier on the
\* street is still active with less than the current bet committed, so that
\* after a raise each of them is returned again first.
C25_CurrentPlayerOwesAction ==
    bettingTracker.round # "NONE" =>
       LET player == getCurrentPlayer(bettingTracker, TableNow).player
       IN /\ player # NoPlayer =>
                /\ status[player] \notin {"FOLDED", "ALL_IN"}
                /\ ~(/\ player \in bettingTracker.playersActed
                     /\ currentBet[player] >= bettingTracker.currentBetAmount)
          /\ player = NoPlayer =>
                \A s \in bettingTracker.playersActed :
                   status[s] = "ACTIVE" =>
                      currentBet[s] >= bettingTracker.currentBetAmount

\* A raise has just been made after the whole order had acted, and the
\* player returned next is one who acted before it and is now behind.
C25_Witness ==
    /\ bettingTracker.round # "NONE"
    /\ lastCall.op \in {"bet", "raise"}
    /\ bettingTracker.currentActionIndex >= Len(bettingTracker.playerIdOrder)
    /\ LET player == getCurrentPlayer(bettingTracker, TableNow).player
       IN /\ player # NoPlayer
          /\ player \in bettingTracker.playersActed
          /\ currentBet[player] < bettingTracker.currentBetAmount

\* C26: whenever the state is not one of the four betting states, the hand
\* manager holds no tracker and getPlayerToAct() returns null.
C26_TrackerOnlyWhileBetting ==
    ~isBettingState(currentState) =>
       /\ bettingTracker = NoTracker
       /\ getPlayerToAct(bettingTracker, TableNow) = NoPlayer

\* ---------------------------------------------------- evaluator (C27-C29)
\* The values of a hand.
ValuesOf(cards) == {c[1] : c \in cards}

\* Five values that run past the Ace: the Ace with a card on each side of it.
WrapsPastAce(values) ==
    values \in {{11, 12, 13, 14, 2}, {12, 13, 14, 2, 3}, {13, 14, 2, 3, 4}}

\* C27: evaluateHand gives A,5,4,3,2 a straight with primary value 5, a
\* straight flush with primary value 5 when the five cards are of one suit,
\* and never gives five cards whose values run past the Ace a straight, a
\* straight flush or a royal flush.
C27_WheelAndNoWrap ==
    lastCall.op = "evaluateHand" =>
       /\ ValuesOf(lastCall.cards) = {14, 5, 4, 3, 2} =>
             /\ lastCall.hand.primaryValue = 5
             /\ lastCall.hand.rank = IF \A c, d \in lastCall.cards : c[2] = d[2]
                                     THEN HandRank.StraightFlush ELSE HandRank.Straight
       /\ WrapsPastAce(ValuesOf(lastCall.cards)) =>
             lastCall.hand.rank \notin {HandRank.Straight, HandRank.StraightFlush,
                                        HandRank.RoyalFlush}

\* A,5,4,3,2 of one suit has been evaluated.
C27_Witness ==
    /\ lastCall.op = "evaluateHand"
    /\ lastCall.cards = {<<14, 1>>, <<5, 1>>, <<4, 1>>, <<3, 1>>, <<2, 1>>}
    /\ lastCall.hand.rank = HandRank.StraightFlush

\* ------------------------------------------------ best of seven (C28)
\* The five-card subsets of a list of cards.
FiveCardSubsets(cards) ==
    {s \in SUBSET {cards[q] : q \in 1 .. Len(cards)} : Cardinality(s) = 5}

\* C28: for seven distinct cards, the ranking evaluateBest7CardHand returns
\* compares greater than or equal to the evaluation of each of the 21
\* five-card subsets, and is the evaluation of at least one of them.
C28_BestOfSevenIsMaximal ==
    lastCall.op = "evaluateBest7CardHand" =>
       /\ Cardinality(FiveCardSubsets(lastCall.cards)) = 21
       /\ \A s \in FiveCardSubsets(lastCall.cards) :
             compareTo(lastCall.hand, evaluateHand(s)) >= 0
       /\ \E s \in FiveCardSubsets(lastCall.cards) :
             lastCall.hand = evaluateHand(s)

\* Seven cards whose best five is decided inside one rank: two pairs of
\* Aces and Kings are in every two-pair subset's reach, and the kicker
\* settles it.
C28_Witness ==
    /\ lastCall.op = "evaluateBest7CardHand"
    /\ lastCall.hand.rank = HandRank.TwoPair
    /\ \E s \in FiveCardSubsets(lastCall.cards) :
          /\ evaluateHand(s).rank = HandRank.TwoPair
          /\ compareTo(lastCall.hand, evaluateHand(s)) > 0

\* ------------------------------------------------- comparison (C29)
Sign(n) == IF n > 0 THEN 1 ELSE IF n < 0 THEN -1 ELSE 0

\* What compareTo reads of a ranking, in the order it reads it.
ComparedFields(hand) ==
    <<hand.rank, hand.primaryValue, hand.secondaryValue>> \o hand.kickers

\* The sign the first differing position of two lists gives, 0 when the
\* lists agree wherever both have a value.
FirstDifference(a, b) ==
    LET both == 1 .. (IF Len(a) < Len(b) THEN Len(a) ELSE Len(b))
        differing == {q \in both : a[q] # b[q]}
    IN IF differing = {} THEN 0
       ELSE LET q == CHOOSE d \in differing : \A e \in differing : d <= e
            IN Sign(a[q] - b[q])

\* C29: compareTo is a total order on hand rankings decided by category,
\* then primary value, then secondary value, then the kickers index by
\* index: the sign reverses when the arguments are swapped, it is
\* transitive, and it returns 0 only when rank, primary value, secondary
\* value and kickers of the two rankings are the same.
C29_CompareToTotalOrder ==
    lastCall.op = "compareTo" =>
       \A i, j \in 1 .. 3 :
          /\ Sign(lastCall.result[i][j]) = -Sign(lastCall.result[j][i])
          /\ Sign(lastCall.result[i][j])
                = FirstDifference(ComparedFields(lastCall.hands[i]),
                                  ComparedFields(lastCall.hands[j]))
          /\ lastCall.result[i][j] = 0 => lastCall.hands[i] = lastCall.hands[j]
          /\ \A k \in 1 .. 3 :
                /\ lastCall.result[i][j] >= 0 /\ lastCall.result[j][k] >= 0
                      => lastCall.result[i][k] >= 0
                /\ lastCall.result[i][j] > 0 /\ lastCall.result[j][k] >= 0
                      => lastCall.result[i][k] > 0

\* Three hands of one category and one primary value: the first two are of
\* different cards and tie, the third loses to them on a kicker.
C29_Witness ==
    /\ lastCall.op = "compareTo"
    /\ lastCall.cards[1] # lastCall.cards[2]
    /\ lastCall.result[1][2] = 0
    /\ lastCall.hands[2].rank = lastCall.hands[3].rank
    /\ lastCall.hands[2].primaryValue = lastCall.hands[3].primaryValue
    /\ lastCall.hands[2].secondaryValue = lastCall.hands[3].secondaryValue
    /\ lastCall.result[2][3] > 0
    /\ lastCall.result[1][3] > 0

\* ---------------------------------------------- chip conservation (C30)
\* The chips of the hand: the stacks, the live bets and what the pots hold.
StackTotal == SumSeats(chips)

ChipsInPlay == StackTotal + SumSeats(currentBet) + getTotalPotAmount(Ledger)

\* The calls that make up a hand, up to the showdown.
HandCalls == {"startHand", "fold", "check", "call", "bet", "raise", "completeBettingRound"}

\* C30: chips are conserved over a hand.  Every call of a hand made in turn
\* leaves the sum of the stacks, the live bets and the pots what it was, and
\* performShowdown leaves the stacks summing to what stacks, bets and pots
\* summed to when it was called, which is the total before startHand: side
\* pots and an all-in bet that was not fully matched are included.
C30_ChipsConserved ==
    [][/\ offProtocolCalls' = 0 /\ lastCall'.op \in HandCalls
             => ChipsInPlay' = ChipsInPlay
       /\ offProtocolCalls' = 0 /\ lastCall'.op = "performShowdown"
             => StackTotal' = ChipsInPlay]_vars

\* ------------------------------------------------- one payout (C31)
\* C31: the pot of a hand is paid out at most once.  A performShowdown call
\* made when the hand has had its showdown already (the state is
\* HandComplete) adds no chips to any stack.
C31_PotPaidOnce ==
    [][showdownCalls >= 1 /\ lastCall'.op = "performShowdown" => chips' = chips]_vars

\* --------------------------------------- nobody left behind (C32)
\* C32: during a betting street, with every call made in turn, whenever
\* isBettingRoundComplete() is true no player who is neither folded nor
\* all-in has committed less than the current bet: a player facing an
\* all-in bet has called or folded before the round is reported complete.
C32_CompleteMeansAllMatched ==
    /\ isBettingState(currentState)
    /\ offProtocolCalls = 0
    /\ isBettingRoundComplete(bettingTracker, TableNow)
    => \A s \in getActivePlayers(TableNow) :
          ~CannotAct(TableNow, s) => currentBet[s] >= bettingTracker.currentBetAmount

\* ----------------------------------- completing out of turn (C33)
\* C33: completeBettingRound called when the state is not one of the four
\* betting states is refused, and changes neither the state, the pots, the
\* players' bets nor the community cards.
C33_CompleteRefusedOutsideBetting ==
    [][~isBettingState(currentState) /\ lastCall'.op = "completeBettingRound"
          => /\ lastCall'.err # "none"
             /\ currentState' = currentState
             /\ mainPot' = mainPot /\ sidePots' = sidePots
             /\ currentBet' = currentBet
             /\ communityCards' = communityCards]_vars

\* ------------------------------------------- transient states (C34)
\* The states a handler passes through on its way.
TransientStates ==
    {"POSTING_BLINDS", "DEALING_HOLE_CARDS", "DEALING_FLOP", "DEALING_TURN",
     "DEALING_RIVER"}

\* C34: after any operation of the hand manager has returned or thrown, the
\* state is not one of the transient states; startHand, called in
\* ReadyToStart with two or more players who have chips, ends in
\* PreflopBetting.
C34_NeverRestsInTransientState ==
    /\ currentState \notin TransientStates
    /\ /\ lastCall.op = "startHand"
       /\ lastCall.from = "READY_TO_START"
       /\ Cardinality({s \in seated : chips[s] + currentBet[s] > 0}) >= 2
       => currentState = "PREFLOP_BETTING"

\* ------------------------------------------ the loop never stalls (C35)
\* C35: during a betting street on which every action was recorded for the
\* player getPlayerToAct() returned, isBettingRoundComplete() false implies
\* that getPlayerToAct() returns a player.
C35_OpenRoundHasPlayerToAct ==
    /\ isBettingState(currentState)
    /\ offProtocolCalls = 0
    /\ ~isBettingRoundComplete(bettingTracker, TableNow)
    => getPlayerToAct(bettingTracker, TableNow) # NoPlayer

\* A street on which somebody has acted, the round still open and a player
\* to act who acted before and is now behind a raise.
C35_Witness ==
    /\ isBettingState(currentState)
    /\ offProtocolCalls = 0
    /\ bettingTracker.playersActed # {}
    /\ ~isBettingRoundComplete(bettingTracker, TableNow)
    /\ getPlayerToAct(bettingTracker, TableNow) \in bettingTracker.playersActed

\* ------------------------------------------- acting out of turn (C36)
\* C36: recordPlayerAction for a player other than the one getPlayerToAct()
\* returns is refused, and leaves the current bet, the set of players who
\* have acted and the player to act as they were.
C36_OutOfTurnActionRefused ==
    [][lastCall'.op = "recordPlayerAction"
          => /\ lastCall'.err # "none"
             /\ bettingTracker'.currentBetAmount = bettingTracker.currentBetAmount
             /\ bettingTracker'.playersActed = bettingTracker.playersActed
             /\ getPlayerToAct(bettingTracker', TableNow')
                   = getPlayerToAct(bettingTracker, TableNow)]_vars

\* ------------------------------------------- a failed startHand (C37)
\* C37: a startHand call that fails, for the wrong state or for fewer than
\* two active players, has no effect: handNumber, the state, the players'
\* cards and statuses and the community cards are what they were before
\* the call.
C37_FailedStartHandHasNoEffect ==
    [][/\ lastCall'.op = "startHand"
       /\ lastCall'.err \in {"CannotStartHandFromState", "InsufficientPlayers"}
       => /\ handNumber' = handNumber
          /\ currentState' = currentState
          /\ holeCards' = holeCards
          /\ status' = status
          /\ communityCards' = communityCards]_vars

\* ------------------------------------------ the game is over (C40)
\* C40: GameOver is absorbing.  In GameOver startHand, completeBettingRound,
\* performShowdown, prepareNextHand and setReadyToStart fail and leave the
\* state GameOver, and reset() is the one call that leaves it.
C40_GameOverAbsorbing ==
    [][currentState = "GAME_OVER"
          => IF lastCall'.op = "reset"
             THEN currentState' = "WAITING_FOR_PLAYERS"
             ELSE lastCall'.err # "none" /\ currentState' = "GAME_OVER"]_vars

\* The game is over with one player left, and completeBettingRound, which
\* does not look at the state itself, has been refused by setState.
C40_Witness ==
    /\ lastCall.from = "GAME_OVER"
    /\ currentState = "GAME_OVER"
    /\ lastCall.op = "completeBettingRound"
    /\ lastCall.err = "InvalidStateTransition"
    /\ Cardinality(seated) = 1

\* ------------------------------------------ a street comes to an end (C38)
\* A street is open: a betting state, every call so far made in turn, and
\* the round not complete.
OpenRound ==
    /\ isBettingState(currentState)
    /\ offProtocolCalls = 0
    /\ ~isBettingRoundComplete(bettingTracker, TableNow)

\* C38: with every action recorded for the player to act and legal for that
\* player, an open betting street reaches isBettingRoundComplete() true
\* after finitely many actions: no street stays open for ever.
C38_StreetComesToAnEnd == OpenRound ~> ~OpenRound

\* A street completed by play: a raise was made, and two players or more
\* who can still act have all acted and matched it.
C38_Witness ==
    /\ isBettingState(currentState)
    /\ offProtocolCalls = 0
    /\ bettingTracker.currentBetAmount > BigBlind
    /\ Cardinality({s \in bettingTracker.playersActed : status[s] = "ACTIVE"}) >= 2
    /\ isBettingRoundComplete(bettingTracker, TableNow)

\* ------------------------------------ the loop finishes the hand (C39)
\* C39: in the store's timer-driven loop every hand that has started gets
\* its pot awarded and the next hand prepared, also when the betting round
\* ends with all but one player folded.  Stated for the hands whose
\* betting the loop has brought to an end, by showdown or by fold-out.
C39_EndedHandIsFinished ==
    (lastCall.op = "completeBettingRound"
        /\ currentState \in {"SHOWDOWN", "HAND_COMPLETE"})
       ~> (lastCall.op = "prepareNextHand")

====
